---- MODULE Spec2Model ----
(***************************************************************************)
(* Show-control kernel of audio_control_system: CoreController together   *)
(* with the CueManager, the BreakpointManager and the BGM slot of the     *)
(* AudioEngine it drives.                                                  *)
(*                                                                         *)
(* Time is a discrete wall clock `now` (time.time()); positions, silence   *)
(* lengths and durations are whole clock units.  Every controller command  *)
(* runs under _operation_lock and is one action; the code that runs        *)
(* without the lock (update_silence, _on_bgm_end, the tasks it spawns) is  *)
(* split at the points where another thread can run in between.           *)
(***************************************************************************)
EXTENDS Integers, Sequences, FiniteSets, TLC

\* ------------------------------------------------------------------ bounds
MaxTime == 1
MaxBreakpoints == 1
MaxPending == 1
MaxTasks == 1
MaxCues == 3
MaxAudioFiles == 2
MaxSfxChannels == 2
MaxBroadcasts == 2
MaxListeners == 2
MaxStored == 3
MaxRaced == 2

\* LongPressHandler.DEFAULT_DURATION_MS, in clock ticks
DEFAULT_DURATION_MS == 1

\* --------------------------------------------------------------- constants
\* Python's None, one constant per type it stands in for
None == "none"
NoTime == -1
NoTrack == [id |-> None, duration |-> 0]
NoCue == [id |-> None, audio_id |-> None, start_time |-> 0,
          silence_before |-> 0, silence_after |-> 0]
NoBreakpoint == [id |-> 0, audio_id |-> None, position |-> 0, label |-> "",
                 auto_saved |-> FALSE]

AUTO == "auto"
MANUAL == "manual"

Local == "local"
Remote == "remote"

\* AudioTrack objects (id, duration); file_path, title and track_type take
\* no part in the kernel's decisions.
TrackA == [id |-> "A", duration |-> 2]
TrackB == [id |-> "B", duration |-> 3]

AudioIds == {"A", "B"}

\* The configuration loaded at start-up (CueListConfig): two BGM tracks and
\* three cues.  The first has a post-cue silence, the second a non-zero in
\* point, the third a pre-cue silence.
ConfigAudioFiles == <<TrackA, TrackB>>

Cue0 == [id |-> "c0", audio_id |-> "A", start_time |-> 0,
         silence_before |-> 0, silence_after |-> 1]
Cue1 == [id |-> "c1", audio_id |-> "B", start_time |-> 1,
         silence_before |-> 0, silence_after |-> 0]
Cue2 == [id |-> "c2", audio_id |-> "A", start_time |-> 0,
         silence_before |-> 1, silence_after |-> 0]

ConfigCues == <<Cue0, Cue1, Cue2>>

\* Inputs of the commands.
SeekPositions == {1, 3}
VolumeInputs == {0, 4}

\* event listeners: the event types listened to, the callbacks, and the
\* callbacks that raise when called
ListenerTypes == {"playback_started", "playback_paused", "state_changed"}
Callbacks == {"L1", "L2"}
Raising == {"L1"}

\* sound effects: the two catalog audios and one more pad of the SFX panel
SfxIds == AudioIds \cup {"S"}
StartPositions == {0, 1}
SilenceInputs == {0, 1}

VARIABLES
  ctl,      \* CoreController's fields
  eng,      \* AudioEngine's BGM slot
  cm,       \* CueManager: cue_list, audio_files, current_index, is_playing
  bps,      \* BreakpointManager._breakpoints: audio id -> list of breakpoints
  now,      \* time.time()
  tasks,    \* asyncio tasks created by _on_bgm_end that have not finished
  events,   \* events handed to _notify_listeners by the last step, in order
  silence_stopped, \* history: stop ended the silence episode begun last
  lp,       \* the LongPressHandler of each long-press button of a panel
  operation_lock, \* CoreController._operation_lock: its holder, or NoThread
  pc,       \* for each command thread, the command whose `with` block it is in
  bm_threads, \* for each thread inside a BreakpointManager method, its locals
  returned, \* history: ids save_breakpoint returned that no delete has named
  engine_calls \* for each thread inside an AudioEngine method, what is left of it

vars == <<ctl, eng, cm, bps, now, tasks, events, silence_stopped, lp, operation_lock, pc,
                 bm_threads, returned, engine_calls>>

\* ------------------------------------------------------------ small helpers
Max(a, b) == IF a >= b THEN a ELSE b
Min(a, b) == IF a <= b THEN a ELSE b

RemoveAt(s, i) == SubSeq(s, 1, i - 1) \o SubSeq(s, i + 1, Len(s))

InsertAt(s, i, x) == SubSeq(s, 1, i - 1) \o <<x>> \o SubSeq(s, i, Len(s))

\* The bundle of everything a handler can change; handlers are functions
\* from bundle to bundle, composed in the order of the code.
Bundle == [c |-> ctl, e |-> eng, m |-> cm, b |-> bps, ev |-> <<>>,
           ss |-> silence_stopped]

\* ------------------------------------------------------- AudioEngine (BGM)
\* pygame Channel 0 is busy from play() until the sound ends or stop();
\* a paused channel stays busy.
EnginePlayBgm(e, track, start_pos) ==
  [e EXCEPT !.current_bgm = track.id, !.bgm_start_pos = start_pos,
            !.bgm_is_paused = FALSE, !.bgm_paused_pos = 0, !.busy = TRUE]

EngineGetBgmPositionInternal(e) ==
  IF e.bgm_is_paused THEN e.bgm_paused_pos
  ELSE IF e.current_bgm = None THEN 0
  ELSE IF ~e.busy THEN 0
  ELSE e.bgm_start_pos

EnginePauseBgm(e) ==
  IF e.busy \/ e.current_bgm # None
  THEN [e EXCEPT !.bgm_paused_pos = EngineGetBgmPositionInternal(e),
                 !.bgm_is_paused = TRUE]
  ELSE e

EngineStopBgm(e) ==
  [e EXCEPT !.busy = FALSE, !.bgm_is_paused = FALSE, !.bgm_paused_pos = 0,
            !.current_bgm = None]

\* ------------------------------------------------------- AudioEngine (SFX)
\* sfx_busy[ch] is Channel(ch).get_busy(); playing_sfx[sfx_id] is the channel
\* recorded for sfx_id in _playing_sfx, 0 when sfx_id is not a key.
EngineFindFreeSfxChannel(e) ==
  IF \E ch \in 1..MaxSfxChannels : ~e.sfx_busy[ch]
  THEN CHOOSE ch \in 1..MaxSfxChannels :
         /\ ~e.sfx_busy[ch]
         /\ \A other \in 1..(ch - 1) : e.sfx_busy[other]
  ELSE 0

EnginePlaySfx(e, sfx_id) ==
  LET f == IF e.playing_sfx[sfx_id] # 0
           THEN [e EXCEPT !.sfx_busy[e.playing_sfx[sfx_id]] = FALSE,
                          !.playing_sfx[sfx_id] = 0]
           ELSE e
      channel == EngineFindFreeSfxChannel(f)
  IN IF channel = 0 THEN [e |-> f, ret |-> FALSE]
     ELSE [e |-> [f EXCEPT !.sfx_busy[channel] = TRUE,
                           !.playing_sfx[sfx_id] = channel],
           ret |-> TRUE]

EngineStopSfx(e, sfx_id) ==
  IF e.playing_sfx[sfx_id] = 0 THEN [e |-> e, ret |-> FALSE]
  ELSE [e |-> [e EXCEPT !.sfx_busy[e.playing_sfx[sfx_id]] = FALSE,
                        !.playing_sfx[sfx_id] = 0],
        ret |-> TRUE]

EngineIsSfxPlaying(e, sfx_id) ==
  IF e.playing_sfx[sfx_id] = 0 THEN FALSE
  ELSE e.sfx_busy[e.playing_sfx[sfx_id]]

\* ------------------------------------------------------------- CueManager
GetCurrentCue(m) ==
  IF Len(m.cue_list) = 0 \/ m.current_index >= Len(m.cue_list)
  THEN NoCue
  ELSE m.cue_list[m.current_index + 1]

GetAudioFile(m, audio_id) ==
  IF \E i \in 1..Len(m.audio_files) : m.audio_files[i].id = audio_id
  THEN LET i == CHOOSE k \in 1..Len(m.audio_files) :
                  /\ m.audio_files[k].id = audio_id
                  /\ \A j \in 1..(k - 1) : m.audio_files[j].id # audio_id
       IN m.audio_files[i]
  ELSE NoTrack

\* advance(): the new current cue, or None (index unchanged) at the last cue
AdvanceGuard(m) == m.current_index < Len(m.cue_list) - 1

\* an advance that forgets to move the index
Advance_KeepsIndex(m) == m

Advance(m) ==
  IF AdvanceGuard(m)
  THEN [m EXCEPT !.current_index = m.current_index + 1]
  ELSE m

SetIndexOf(m, index) ==
  IF 0 <= index /\ index < Len(m.cue_list)
  THEN [m EXCEPT !.current_index = index]
  ELSE m

\* ------------------------------------------------------ BreakpointManager
BreakpointIds(b) ==
  UNION {{b[a][i].id : i \in 1..Len(b[a])} : a \in DOMAIN b}

RECURSIVE CountBreakpoints(_, _)
CountBreakpoints(b, ids) ==
  IF ids = {} THEN 0
  ELSE LET a == CHOOSE x \in ids : TRUE
       IN Len(b[a]) + CountBreakpoints(b, ids \ {a})

BreakpointCount(b) == CountBreakpoints(b, DOMAIN b)

\* an id made from the number of stored breakpoints
NewBreakpointId_Count(b) == BreakpointCount(b) + 1

\* uuid4(): an id no stored breakpoint carries
NewBreakpointId(b) ==
  CHOOSE n \in 1..(BreakpointCount(b) + 1) :
    /\ n \notin BreakpointIds(b)
    /\ \A k \in 1..(n - 1) : k \in BreakpointIds(b)

\* created_at is a timestamp nothing reads; it is left out.
BmSaveBreakpoint(b, audio_id, position, label, auto_saved) ==
  [b EXCEPT ![audio_id] =
     Append(@, [id |-> NewBreakpointId(b), audio_id |-> audio_id,
                position |-> position, label |-> label,
                auto_saved |-> auto_saved])]

\* a lookup that takes the audio's first breakpoint whatever the id
BmGetBreakpoint_IgnoresId(b, audio_id, bp_id) ==
  IF Len(b[audio_id]) > 0 THEN b[audio_id][1] ELSE NoBreakpoint

BmGetBreakpoint(b, audio_id, bp_id) ==
  IF \E i \in 1..Len(b[audio_id]) : b[audio_id][i].id = bp_id
  THEN b[audio_id][CHOOSE i \in 1..Len(b[audio_id]) : b[audio_id][i].id = bp_id]
  ELSE NoBreakpoint

\* a clear that empties every audio's list
BmClearAudioBreakpoints_All(b, audio_id) == [a \in DOMAIN b |-> <<>>]

BmClearAudioBreakpoints(b, audio_id) == [b EXCEPT ![audio_id] = <<>>]

BmGetBreakpoints(b, audio_id) ==
  IF audio_id \in DOMAIN b THEN b[audio_id] ELSE <<>>

BmDeleteBreakpoint(b, audio_id, bp_id) ==
  LET kept == SelectSeq(b[audio_id], LAMBDA bp : bp.id # bp_id) IN
  [b |-> [b EXCEPT ![audio_id] = kept],
   ret |-> Len(kept) < Len(b[audio_id])]

\* a batch delete that reports the number of ids it was given
BmClearSelected_CountsRequested(b, bp_ids) ==
  [b |-> [a \in DOMAIN b |->
            SelectSeq(b[a], LAMBDA bp :
              bp.id \notin {bp_ids[i] : i \in 1..Len(bp_ids)})],
   ret |-> Len(bp_ids)]

\* clear_selected: the loop over the audios, counting what each list loses
RECURSIVE ClearSelectedLoop(_, _, _, _)
ClearSelectedLoop(b, bp_id_set, audio_ids, deleted_count) ==
  IF audio_ids = {} THEN [b |-> b, ret |-> deleted_count]
  ELSE LET audio_id == CHOOSE a \in audio_ids : TRUE
           kept == SelectSeq(b[audio_id], LAMBDA bp : bp.id \notin bp_id_set)
       IN ClearSelectedLoop([b EXCEPT ![audio_id] = kept], bp_id_set,
                            audio_ids \ {audio_id},
                            deleted_count + Len(b[audio_id]) - Len(kept))

BmClearSelected(b, bp_ids) ==
  ClearSelectedLoop(b, {bp_ids[i] : i \in 1..Len(bp_ids)}, DOMAIN b, 0)

\* ---------------------------------------------------- CoreController parts
GetCurrentPosition(c) ==
  IF c.is_paused THEN c.current_position
  ELSE IF ~c.is_playing \/ c.playback_start_time = NoTime THEN c.current_position
  ELSE c.playback_start_position + (now - c.playback_start_time)

\* add_listener / remove_listener
AddListener(c, event_type, callback) ==
  IF event_type \in DOMAIN c.listeners
  THEN [c EXCEPT !.listeners[event_type] = Append(@, callback)]
  ELSE c

RemoveListener(c, event_type, callback) ==
  IF event_type \in DOMAIN c.listeners
     /\ \E i \in 1..Len(c.listeners[event_type]) :
          c.listeners[event_type][i] = callback
  THEN LET l == c.listeners[event_type]
           first == CHOOSE i \in 1..Len(l) :
                      /\ l[i] = callback
                      /\ \A k \in 1..(i - 1) : l[k] # callback
       IN [c EXCEPT !.listeners[event_type] =
             SubSeq(l, 1, first - 1) \o SubSeq(l, first + 1, Len(l))]
  ELSE c

\* one loop of _notify_listeners without its try/except: the first callback
\* that raises ends the loop
CallAll_Unguarded(callbacks, event_type, data) ==
  LET stop == IF \E i \in 1..Len(callbacks) : callbacks[i] \in Raising
              THEN CHOOSE i \in 1..Len(callbacks) :
                     /\ callbacks[i] \in Raising
                     /\ \A k \in 1..(i - 1) : callbacks[k] \notin Raising
              ELSE Len(callbacks)
  IN [i \in 1..stop |->
        [callback |-> callbacks[i], event_type |-> event_type, data |-> data,
         raised |-> callbacks[i] \in Raising]]

\* one loop of _notify_listeners: every callback is called; an exception is
\* caught and printed
CallAll(callbacks, event_type, data) ==
  [i \in 1..Len(callbacks) |->
     [callback |-> callbacks[i], event_type |-> event_type, data |-> data,
      raised |-> callbacks[i] \in Raising]]

\* the calls _notify_listeners(type, data) makes, in order
NotifyCalls(c, type, data) ==
  LET of(t) == IF t \in DOMAIN c.listeners THEN c.listeners[t] ELSE <<>> IN
  CallAll(of(type), type, data) \o
  (IF type # "state_changed"
   THEN CallAll(of("state_changed"), "state_changed",
                [event |-> type, data |-> data])
   ELSE <<>>)

\* _notify_listeners: the listeners of the event type, then the
\* state_changed listeners with the event wrapped.
NotifyListeners(s, type, data) ==
  [s EXCEPT !.ev = @ \o
     (IF type # "state_changed"
      THEN <<[type |-> type, data |-> data],
             [type |-> "state_changed", data |-> [event |-> type, data |-> data]]>>
      ELSE <<[type |-> type, data |-> data]>>)]

\* a kernel that lets every source through
CheckPriority_AlwaysAllowed(c, source) == TRUE

CheckPriority(c, source) ==
  IF source = Local THEN TRUE ELSE ~c.local_priority

\* the timestamp of the queued entry is never read; it is left out.
\* kwargs is <<>> or, for seek, <<position>>.
QueueRemoteOp(s, op, source, kwargs) ==
  [s EXCEPT !.c.pending_remote_ops =
     Append(@, [op |-> op, source |-> source, kwargs |-> kwargs])]

\* the first lines of every queued command: not allowed now, so queue it
Deferred(s, op, source, kwargs) ==
  [s |-> QueueRemoteOp(s, op, source, kwargs), ret |-> FALSE]

StartSilence(s, duration, is_before) ==
  NotifyListeners(
    [s EXCEPT !.c.in_silence = TRUE, !.c.silence_duration = duration,
              !.c.silence_remaining = duration,
              !.c.silence_start_time = now,
              !.ss = FALSE],
    "silence_started", [duration |-> duration, is_before |-> is_before])

\* the assignments every path that starts a BGM shares
\* a start that forgets to leave the paused state
StartedPlaying_KeepsPaused(s, audio, position) ==
  [s EXCEPT !.e = EnginePlayBgm(s.e, audio, position),
            !.c.is_playing = TRUE,
            !.c.current_position = position,
            !.c.playback_start_time = now,
            !.c.playback_start_position = position]

StartedPlaying(s, audio, position) ==
  [s EXCEPT !.e = EnginePlayBgm(s.e, audio, position),
            !.c.is_playing = TRUE, !.c.is_paused = FALSE,
            !.c.current_position = position,
            !.c.playback_start_time = now,
            !.c.playback_start_position = position]

PlayAutoMode(s) ==
  LET cue == GetCurrentCue(s.m) IN
  IF cue = NoCue THEN [s |-> s, ret |-> FALSE]
  ELSE
    LET audio == GetAudioFile(s.m, cue.audio_id) IN
    IF audio = NoTrack THEN [s |-> s, ret |-> FALSE]
    ELSE IF cue.silence_before > 0 /\ ~s.c.in_silence /\ ~s.c.is_playing
    THEN [s |-> StartSilence(s, cue.silence_before, TRUE), ret |-> TRUE]
    ELSE
      LET t == StartedPlaying(s, audio, cue.start_time) IN
      [s |-> NotifyListeners(
               [t EXCEPT !.c.current_audio_id = audio.id,
                         !.m.is_playing = TRUE],
               "playback_started",
               [audio_id |-> audio.id, position |-> cue.start_time,
                cue_id |-> cue.id]),
       ret |-> TRUE]

PlayManualMode(s) ==
  IF s.c.manual_audio = NoTrack THEN [s |-> s, ret |-> FALSE]
  ELSE IF s.c.manual_silence_before > 0 /\ ~s.c.in_silence /\ ~s.c.is_playing
  THEN [s |-> StartSilence(s, s.c.manual_silence_before, TRUE), ret |-> TRUE]
  ELSE
    LET t == StartedPlaying(s, s.c.manual_audio, s.c.manual_start_pos) IN
    [s |-> NotifyListeners(
             [t EXCEPT !.c.current_audio_id = s.c.manual_audio.id],
             "playback_started",
             [audio_id |-> s.c.manual_audio.id,
              position |-> s.c.manual_start_pos]),
     ret |-> TRUE]

PlayByMode(s) ==
  IF s.c.mode = AUTO THEN PlayAutoMode(s) ELSE PlayManualMode(s)

\* ------------------------------------------------- CoreController commands
\* Each command maps the bundle to [s |-> new bundle, ret |-> return value].
Play(s, source) ==
  IF ~CheckPriority(s.c, source) THEN Deferred(s, "play", source, <<>>)
  ELSE PlayByMode(s)

Pause(s, source) ==
  IF ~CheckPriority(s.c, source) THEN Deferred(s, "pause", source, <<>>)
  ELSE IF ~s.c.is_playing \/ s.c.is_paused THEN [s |-> s, ret |-> FALSE]
  ELSE
    LET pos == GetCurrentPosition(s.c)
        saved == IF s.c.current_audio_id # None
                 THEN BmSaveBreakpoint(s.b, s.c.current_audio_id, pos,
                                       "pause_auto", TRUE)
                 ELSE s.b
    IN [s |-> NotifyListeners(
                [s EXCEPT !.c.current_position = pos,
                          !.b = saved,
                          !.e = EnginePauseBgm(s.e),
                          !.c.is_paused = TRUE,
                          !.c.paused_audio_id = s.c.current_audio_id,
                          !.c.paused_position = pos],
                "playback_paused", [position |-> pos]),
        ret |-> TRUE]

\* the audio resume() re-plays
ResumeAudio(s) ==
  IF s.c.mode = MANUAL /\ s.c.manual_audio # NoTrack THEN s.c.manual_audio
  ELSE IF s.c.paused_audio_id # None
  THEN LET a == GetAudioFile(s.m, s.c.paused_audio_id) IN
       IF a = NoTrack /\ s.c.manual_audio # NoTrack
                   /\ s.c.manual_audio.id = s.c.paused_audio_id
       THEN s.c.manual_audio
       ELSE a
  ELSE IF s.c.mode = AUTO
  THEN LET cue == GetCurrentCue(s.m) IN
       IF cue # NoCue THEN GetAudioFile(s.m, cue.audio_id) ELSE NoTrack
  ELSE NoTrack

Resume(s, source) ==
  IF ~CheckPriority(s.c, source) THEN Deferred(s, "resume", source, <<>>)
  ELSE IF ~s.c.is_paused THEN [s |-> s, ret |-> FALSE]
  ELSE
    LET resume_position == IF s.c.paused_position > 0
                           THEN s.c.paused_position
                           ELSE s.c.current_position
        audio == ResumeAudio(s)
    IN IF audio = NoTrack THEN [s |-> s, ret |-> FALSE]
       ELSE [s |-> NotifyListeners(
                     StartedPlaying(s, audio, resume_position),
                     "playback_started",
                     [position |-> resume_position, resumed |-> TRUE]),
             ret |-> TRUE]

Stop(s, source) ==
  IF ~CheckPriority(s.c, source) THEN Deferred(s, "stop", source, <<>>)
  ELSE
    LET position == EngineGetBgmPositionInternal(s.e)
        t == [s EXCEPT !.e = EngineStopBgm(s.e),
                       !.c.is_playing = FALSE, !.c.is_paused = FALSE,
                       !.c.current_position = 0,
                       !.c.playback_start_time = NoTime,
                       !.c.playback_start_position = 0,
                       !.m.is_playing = FALSE,
                       !.c.paused_audio_id = None,
                       !.c.paused_position = 0]
        u == IF s.c.in_silence
             THEN [t EXCEPT !.c.in_silence = FALSE,
                            !.c.silence_remaining = 0,
                            !.c.silence_start_time = NoTime,
                            !.c.silence_duration = 0,
                            !.ss = TRUE]
             ELSE t
    IN [s |-> NotifyListeners(u, "playback_stopped",
                [position |-> position, audio_id |-> s.c.current_audio_id]),
        ret |-> TRUE]

NextCue(s, source) ==
  IF ~CheckPriority(s.c, source) THEN Deferred(s, "next_cue", source, <<>>)
  ELSE IF s.c.mode # AUTO THEN [s |-> s, ret |-> FALSE]
  ELSE
    LET t == [s EXCEPT !.e = EngineStopBgm(s.e)]
        u == IF s.c.in_silence
             THEN [t EXCEPT !.c.in_silence = FALSE, !.c.silence_remaining = 0]
             ELSE t
    IN IF ~AdvanceGuard(u.m)
       THEN [s |-> [u EXCEPT !.c.is_playing = FALSE, !.c.is_paused = FALSE,
                             !.m.is_playing = FALSE],
             ret |-> FALSE]
       ELSE
         LET v == [u EXCEPT !.m = Advance(u.m)] IN
         PlayAutoMode(NotifyListeners(v, "cue_changed",
            [cue_index |-> v.m.current_index, cue_id |-> GetCurrentCue(v.m).id]))

\* the audio seek() re-plays
SeekAudio(s) ==
  IF s.c.mode = AUTO
  THEN LET cue == GetCurrentCue(s.m) IN
       IF cue = NoCue THEN NoTrack ELSE GetAudioFile(s.m, cue.audio_id)
  ELSE s.c.manual_audio

Seek(s, position, source) ==
  IF ~CheckPriority(s.c, source) THEN Deferred(s, "seek", source, <<position>>)
  ELSE IF s.c.current_audio_id = None THEN [s |-> s, ret |-> FALSE]
  ELSE
    LET audio == SeekAudio(s) IN
    IF audio = NoTrack THEN [s |-> s, ret |-> FALSE]
    ELSE IF position < 0 \/ position > audio.duration
    THEN [s |-> s, ret |-> FALSE]
    ELSE
      LET was_playing == s.c.is_playing /\ ~s.c.is_paused
          t == [s EXCEPT !.e = EnginePlayBgm(EngineStopBgm(s.e), audio, position),
                         !.c.current_position = position,
                         !.c.playback_start_time = now,
                         !.c.playback_start_position = position]
      IN [s |-> IF ~was_playing
                THEN [t EXCEPT !.e = EnginePauseBgm(t.e), !.c.is_paused = TRUE]
                ELSE t,
          ret |-> TRUE]

Replay(s, source) ==
  IF ~CheckPriority(s.c, source) THEN Deferred(s, "replay", source, <<>>)
  ELSE
    LET cue == GetCurrentCue(s.m)
        audio == IF s.c.mode = AUTO
                 THEN (IF cue = NoCue THEN NoTrack
                       ELSE GetAudioFile(s.m, cue.audio_id))
                 ELSE s.c.manual_audio
        start_pos == IF s.c.mode = AUTO /\ cue # NoCue THEN cue.start_time ELSE 0
    IN IF audio = NoTrack THEN [s |-> s, ret |-> FALSE]
       ELSE [s |-> NotifyListeners(
                     StartedPlaying([s EXCEPT !.e = EngineStopBgm(s.e)],
                                    audio, start_pos),
                     "playback_started",
                     [audio_id |-> audio.id, position |-> start_pos,
                      replay |-> TRUE]),
             ret |-> TRUE]

\* index of the first cue whose audio is the manual audio, or -1
FirstCueWithAudio(m, audio_id) ==
  IF \E i \in 1..Len(m.cue_list) : m.cue_list[i].audio_id = audio_id
  THEN (CHOOSE i \in 1..Len(m.cue_list) :
          /\ m.cue_list[i].audio_id = audio_id
          /\ \A j \in 1..(i - 1) : m.cue_list[j].audio_id # audio_id) - 1
  ELSE -1

SwitchMode(s, mode) ==
  IF s.c.mode = mode THEN [s |-> s, ret |-> TRUE]
  ELSE
    LET current_pos == GetCurrentPosition(s.c)
        was_playing == s.c.is_playing /\ ~s.c.is_paused
        was_paused == s.c.is_paused
        cue == GetCurrentCue(s.m)
        current_audio == IF s.c.mode = AUTO
                         THEN (IF cue # NoCue
                               THEN GetAudioFile(s.m, cue.audio_id)
                               ELSE NoTrack)
                         ELSE s.c.manual_audio
        t == [s EXCEPT !.c.mode = mode]
        found == FirstCueWithAudio(s.m, s.c.manual_audio.id)
        u == IF mode = MANUAL
             THEN (IF current_audio # NoTrack
                   THEN [t EXCEPT !.c.manual_audio = current_audio,
                                  !.c.manual_start_pos =
                                     IF was_playing \/ was_paused
                                     THEN current_pos ELSE 0]
                   ELSE t)
             ELSE (IF s.c.manual_audio # NoTrack /\ found >= 0
                   THEN [t EXCEPT !.m = SetIndexOf(t.m, found)]
                   ELSE t)
    IN [s |-> NotifyListeners(u, "mode_changed",
                [old_mode |-> s.c.mode, new_mode |-> mode,
                 position |-> current_pos, was_playing |-> was_playing,
                 was_paused |-> was_paused]),
        ret |-> TRUE]

\* set_bgm_volume / set_sfx_volume: the volume clamped to [0, 3] (0%-300%),
\* handed to the mixer, then one volume_changed event. They return nothing.
EngineSetBgmVolume(e, volume) ==
  [e EXCEPT !.bgm_volume = Max(0, Min(3, volume))]

EngineSetSfxVolume(e, volume) ==
  [e EXCEPT !.sfx_volume = Max(0, Min(3, volume))]

\* a BGM slider that moves the SFX volume along
SetBgmVolume_SetsBoth(s, volume) ==
  LET v == Max(0, Min(3, volume)) IN
  NotifyListeners([s EXCEPT !.c.bgm_volume = v, !.c.sfx_volume = v,
                            !.e = EngineSetBgmVolume(s.e, v)],
                  "volume_changed", [type |-> "bgm", volume |-> v])

SetBgmVolume(s, volume) ==
  LET v == Max(0, Min(3, volume)) IN
  NotifyListeners([s EXCEPT !.c.bgm_volume = v,
                            !.e = EngineSetBgmVolume(s.e, v)],
                  "volume_changed", [type |-> "bgm", volume |-> v])

SetSfxVolume(s, volume) ==
  LET v == Max(0, Min(3, volume)) IN
  NotifyListeners([s EXCEPT !.c.sfx_volume = v,
                            !.e = EngineSetSfxVolume(s.e, v)],
                  "volume_changed", [type |-> "sfx", volume |-> v])

\* play_sfx / stop_sfx / toggle_sfx; the track only names the file to load.
PlaySfx(s, sfx_id) ==
  LET r == EnginePlaySfx(s.e, sfx_id)
      t == [s EXCEPT !.e = r.e]
  IN [s |-> IF r.ret THEN NotifyListeners(t, "sfx_started", [sfx_id |-> sfx_id])
            ELSE t,
      ret |-> r.ret]

StopSfx(s, sfx_id) ==
  LET r == EngineStopSfx(s.e, sfx_id)
      t == [s EXCEPT !.e = r.e]
  IN [s |-> IF r.ret THEN NotifyListeners(t, "sfx_stopped", [sfx_id |-> sfx_id])
            ELSE t,
      ret |-> r.ret]

ToggleSfx(s, sfx_id) ==
  IF EngineIsSfxPlaying(s.e, sfx_id)
  THEN [s |-> NotifyListeners([s EXCEPT !.e = EngineStopSfx(s.e, sfx_id).e],
                              "sfx_stopped", [sfx_id |-> sfx_id]),
        ret |-> FALSE]
  ELSE [s |-> NotifyListeners([s EXCEPT !.e = EnginePlaySfx(s.e, sfx_id).e],
                              "sfx_started", [sfx_id |-> sfx_id]),
        ret |-> TRUE]

\* The three setters return nothing; ret records TRUE.
\* a setter that also puts the kernel in MANUAL
SetManualAudio_EntersManual(s, audio) ==
  [s |-> [s EXCEPT !.c.manual_audio = audio, !.c.manual_start_pos = 0,
                   !.c.manual_silence_before = 0, !.c.mode = MANUAL],
   ret |-> TRUE]

SetManualAudio(s, audio) ==
  LET t == IF s.c.is_playing /\ s.c.current_audio_id # None
              /\ s.c.current_audio_id # audio.id
           THEN [s EXCEPT !.b = BmSaveBreakpoint(s.b, s.c.current_audio_id,
                                   GetCurrentPosition(s.c), "switch_auto", TRUE)]
           ELSE s
  IN [s |-> [t EXCEPT !.c.manual_audio = audio, !.c.manual_start_pos = 0,
                      !.c.manual_silence_before = 0],
      ret |-> TRUE]

SetManualStartPosition(s, position) ==
  [s |-> [s EXCEPT !.c.manual_start_pos = Max(0, position)], ret |-> TRUE]

SetManualSilenceBefore(s, duration) ==
  [s |-> [s EXCEPT !.c.manual_silence_before = Max(0, duration)], ret |-> TRUE]

RestoreBreakpoint(s, audio_id, bp_id) ==
  LET bp == BmGetBreakpoint(s.b, audio_id, bp_id)
      audio == GetAudioFile(s.m, audio_id)
  IN IF bp = NoBreakpoint THEN [s |-> s, ret |-> FALSE]
     ELSE IF audio = NoTrack THEN [s |-> s, ret |-> FALSE]
     ELSE
       LET t == IF s.c.is_playing /\ s.c.current_audio_id # None
                THEN [s EXCEPT !.b = BmSaveBreakpoint(s.b, s.c.current_audio_id,
                                        GetCurrentPosition(s.c), "", TRUE)]
                ELSE s
           u == StartedPlaying([t EXCEPT !.e = EngineStopBgm(t.e)],
                               audio, bp.position)
           v == [u EXCEPT !.c.current_audio_id = audio_id]
           w == IF s.c.mode = MANUAL
                THEN [v EXCEPT !.c.manual_audio = audio,
                               !.c.manual_start_pos = bp.position]
                ELSE v
       IN [s |-> NotifyListeners(w, "playback_started",
                   [audio_id |-> audio_id, position |-> bp.position,
                    from_breakpoint |-> TRUE, bp_id |-> bp_id]),
           ret |-> TRUE]

PlayNewBgm(s, audio, start_pos) ==
  LET t == IF s.c.is_playing /\ s.c.current_audio_id # None /\ ~s.c.is_paused
           THEN [s EXCEPT !.b = BmSaveBreakpoint(s.b, s.c.current_audio_id,
                                   GetCurrentPosition(s.c), "auto", TRUE)]
           ELSE s
      u == StartedPlaying([t EXCEPT !.e = EngineStopBgm(t.e)], audio, start_pos)
      v == [u EXCEPT !.c.current_audio_id = audio.id]
      w == IF s.c.mode = MANUAL
           THEN [v EXCEPT !.c.manual_audio = audio,
                          !.c.manual_start_pos = start_pos]
           ELSE v
  IN [s |-> NotifyListeners(w, "playback_started",
              [audio_id |-> audio.id, position |-> start_pos]),
      ret |-> TRUE]

SkipSilence(s) ==
  IF ~s.c.in_silence THEN [s |-> s, ret |-> FALSE]
  ELSE PlayByMode(NotifyListeners(
         [s EXCEPT !.c.in_silence = FALSE, !.c.silence_remaining = 0],
         "silence_ended", [skipped |-> TRUE]))

\* update_silence() holds no lock.  Its first half reads the flag and the
\* clock and stores silence_remaining (lines 922-928); its second half clears
\* the flag and publishes silence_ended (lines 929-933).
UpdateSilenceRemaining(c) ==
  Max(0, c.silence_duration - (now - c.silence_start_time))

UpdateSilenceRead(s) ==
  IF ~s.c.in_silence THEN s
  ELSE [s EXCEPT !.c.silence_remaining = UpdateSilenceRemaining(s.c)]

UpdateSilenceExpired(s) ==
  s.c.in_silence /\ UpdateSilenceRemaining(s.c) <= 0

UpdateSilenceWrite(s) ==
  NotifyListeners([s EXCEPT !.c.in_silence = FALSE],
                  "silence_ended", [skipped |-> FALSE])

\* process_pending_ops re-issues the popped operation through the public
\* command, source "remote".
Reissue(s, op_info) ==
  IF op_info.op = "play" THEN Play(s, Remote)
  ELSE IF op_info.op = "pause" THEN Pause(s, Remote)
  ELSE IF op_info.op = "resume" THEN Resume(s, Remote)
  ELSE IF op_info.op = "stop" THEN Stop(s, Remote)
  ELSE IF op_info.op = "next_cue" THEN NextCue(s, Remote)
  ELSE IF op_info.op = "seek"
  THEN Seek(s, IF Len(op_info.kwargs) > 0 THEN op_info.kwargs[1] ELSE 0, Remote)
  ELSE IF op_info.op = "replay" THEN Replay(s, Remote)
  ELSE [s |-> s, ret |-> FALSE]

\* returns nothing; ret records whether an operation was popped
ProcessPendingOps(s) ==
  IF Len(s.c.pending_remote_ops) = 0 THEN [s |-> s, ret |-> FALSE]
  ELSE
    LET op_info == Head(s.c.pending_remote_ops)
        t == [s EXCEPT !.c.pending_remote_ops = Tail(@)]
    IN [s |-> Reissue(t, op_info).s, ret |-> TRUE]

\* _on_bgm_end up to the create_task call
OnBgmEnd(s) ==
  NotifyListeners(
    [s EXCEPT !.c.is_playing = FALSE, !.c.is_paused = FALSE,
              !.c.playback_start_time = NoTime,
              !.c.paused_audio_id = None, !.c.paused_position = 0],
    "playback_completed", [audio_id |-> s.c.current_audio_id])

\* the task _on_bgm_end creates in AUTO mode
SpawnedTask(s) ==
  LET cue == GetCurrentCue(s.m) IN
  IF cue # NoCue /\ cue.silence_after > 0
  THEN [kind |-> "handle_auto_next", pc |-> "start",
        silence_duration |-> cue.silence_after]
  ELSE [kind |-> "auto_advance", pc |-> "start", silence_duration |-> 0]

AutoAdvance(s) ==
  IF AdvanceGuard(s.m)
  THEN LET t == [s EXCEPT !.m = Advance(s.m)] IN
       PlayAutoMode(NotifyListeners(t, "cue_changed",
          [cue_index |-> t.m.current_index, cue_id |-> GetCurrentCue(t.m).id])).s
  ELSE s

\* ------------------------------------------------ CueManager list editing
CmAddCue(m, cue) == [m EXCEPT !.cue_list = Append(@, cue)]

InsertCueOk(m, index) == 0 <= index /\ index <= Len(m.cue_list)

CmInsertCue(m, index, cue) ==
  IF InsertCueOk(m, index)
  THEN [m EXCEPT !.cue_list = InsertAt(@, index + 1, cue),
                 !.current_index = IF index <= m.current_index
                                   THEN m.current_index + 1
                                   ELSE m.current_index]
  ELSE m

\* 0-based index of the first cue with this id, or -1
CueIndexOf(m, cue_id) ==
  IF \E i \in 1..Len(m.cue_list) : m.cue_list[i].id = cue_id
  THEN (CHOOSE i \in 1..Len(m.cue_list) :
          /\ m.cue_list[i].id = cue_id
          /\ \A j \in 1..(i - 1) : m.cue_list[j].id # cue_id) - 1
  ELSE -1

CmRemoveCue(m, cue_id) ==
  LET i == CueIndexOf(m, cue_id) IN
  IF i < 0 THEN m
  ELSE
    LET rest == RemoveAt(m.cue_list, i + 1) IN
    [m EXCEPT !.cue_list = rest,
              !.current_index =
                 IF i < m.current_index THEN m.current_index - 1
                 ELSE IF i = m.current_index /\ m.current_index >= Len(rest)
                 THEN Max(0, Len(rest) - 1)
                 ELSE m.current_index]

MoveCueOk(m, from_index, to_index) ==
  /\ 0 <= from_index /\ from_index < Len(m.cue_list)
  /\ 0 <= to_index /\ to_index < Len(m.cue_list)

\* a move that reorders the list and forgets the index
CmMoveCue_KeepsIndex(m, from_index, to_index) ==
  IF ~MoveCueOk(m, from_index, to_index) THEN m
  ELSE [m EXCEPT !.cue_list =
          InsertAt(RemoveAt(m.cue_list, from_index + 1), to_index + 1,
                   m.cue_list[from_index + 1])]

CmMoveCue(m, from_index, to_index) ==
  IF ~MoveCueOk(m, from_index, to_index) THEN m
  ELSE
    LET cue == m.cue_list[from_index + 1]
        moved == InsertAt(RemoveAt(m.cue_list, from_index + 1), to_index + 1, cue)
    IN [m EXCEPT !.cue_list = moved,
                 !.current_index =
                    IF from_index = m.current_index THEN to_index
                    ELSE IF from_index < m.current_index
                            /\ m.current_index <= to_index
                    THEN m.current_index - 1
                    ELSE IF to_index <= m.current_index
                            /\ m.current_index < from_index
                    THEN m.current_index + 1
                    ELSE m.current_index]

CmClearCues(m) ==
  [m EXCEPT !.cue_list = <<>>, !.current_index = 0, !.is_playing = FALSE]

CmAddAudioFile(m, audio) == [m EXCEPT !.audio_files = Append(@, audio)]

\* 0-based index of the first audio file with this id, or -1
AudioIndexOf(m, audio_id) ==
  IF \E i \in 1..Len(m.audio_files) : m.audio_files[i].id = audio_id
  THEN (CHOOSE i \in 1..Len(m.audio_files) :
          /\ m.audio_files[i].id = audio_id
          /\ \A j \in 1..(i - 1) : m.audio_files[j].id # audio_id) - 1
  ELSE -1

\* the catalog after remove_audio_file and the value it returns
CmRemoveAudioFile(m, audio_id) ==
  LET i == AudioIndexOf(m, audio_id) IN
  IF i < 0 THEN [m |-> m, ret |-> FALSE]
  ELSE [m |-> [m EXCEPT !.audio_files = RemoveAt(@, i + 1)], ret |-> TRUE]

CmLoadFromConfig(m, cues, audio_files) ==
  [m EXCEPT !.cue_list = cues, !.audio_files = audio_files,
            !.current_index = 0, !.is_playing = FALSE]

\* ------------------------------------------------------------------ states
InitCtl ==
  [mode |-> AUTO, is_playing |-> FALSE, is_paused |-> FALSE,
   current_audio_id |-> None, current_position |-> 0,
   in_silence |-> FALSE, silence_remaining |-> 0,
   silence_start_time |-> NoTime, silence_duration |-> 0,
   manual_audio |-> NoTrack, manual_start_pos |-> 0,
   manual_silence_before |-> 0,
   paused_audio_id |-> None, paused_position |-> 0,
   local_priority |-> TRUE, pending_remote_ops |-> <<>>,
   playback_start_time |-> NoTime, playback_start_position |-> 0,
   bgm_volume |-> 1, sfx_volume |-> 1,
   listeners |-> [type \in ListenerTypes |-> <<>>]]

\* no thread holds the lock
NoThread == "nobody"

InitEng ==
  [current_bgm |-> None, bgm_start_pos |-> 0, bgm_paused_pos |-> 0,
   bgm_is_paused |-> FALSE, busy |-> FALSE,
   bgm_volume |-> 1, sfx_volume |-> 1,
   lock |-> NoThread, initialized |-> TRUE,
   sfx_busy |-> [ch \in 1..MaxSfxChannels |-> FALSE],
   playing_sfx |-> [sfx_id \in SfxIds |-> 0]]

InitCm ==
  [cue_list |-> <<>>, audio_files |-> <<>>, current_index |-> 0,
   is_playing |-> FALSE]

\* the threads run_async starts, one per command of the window
CommandThreads == {"T1", "T2"}

\* a thread outside every `with self._operation_lock` block
Idle == "idle"

\* the threads that call the AudioEngine: the window's and a command's
EngineThreads == {"gui", "worker"}

\* a thread outside every AudioEngine method
NoEngineCall == [op |-> "none", todo |-> <<>>]

\* the threads that call the BreakpointManager (request handlers, commands)
StoreThreads == {"S1", "S2"}

\* a thread outside every BreakpointManager method
NoCall == [op |-> "none", audio_id |-> None, kept |-> <<>>,
           bp_id_set |-> {}, todo |-> {}]

\* the long-press buttons of a mode panel
Buttons == {"play", "pause"}

\* no LongPressResult yet (_last_result is None)
NoResult == [success |-> FALSE, duration_ms |-> -1, state |-> "none"]

\* LongPressHandler.__init__
InitLp ==
  [state |-> "idle", press_start |-> NoTime,
   duration_ms |-> DEFAULT_DURATION_MS, last_result |-> NoResult,
   confirms |-> 0]  \* history: runs of the confirm callback since on_press

InitCommon ==
  /\ ctl = InitCtl
  /\ eng = InitEng
  /\ bps = [a \in AudioIds |-> <<>>]
  /\ now = 0
  /\ tasks = <<>>
  /\ events = <<>>
  /\ silence_stopped = FALSE
  /\ lp = [btn \in Buttons |-> InitLp]
  /\ operation_lock = NoThread
  /\ pc = [t \in CommandThreads |-> Idle]
  /\ bm_threads = [t \in StoreThreads |-> NoCall]
  /\ returned = {}
  /\ engine_calls = [t \in EngineThreads |-> NoEngineCall]

\* the kernel after construction and load_config of the start-up file
Init ==
  /\ InitCommon
  /\ cm = CmLoadFromConfig(InitCm, ConfigCues, ConfigAudioFiles)

\* a freshly constructed CueManager
InitCat ==
  /\ InitCommon
  /\ cm = InitCm

\* ----------------------------------------------------------------- actions
\* The state after a handler ran: t is the bundle it returned.  The two
\* guards cap the breakpoint store and the remote queue, which the code
\* lets grow without limit.
Writes(t) ==
  /\ BreakpointCount(t.b) <= MaxBreakpoints
  /\ Len(t.c.pending_remote_ops) <= MaxPending
  /\ ctl' = t.c
  /\ eng' = t.e
  /\ cm' = t.m
  /\ bps' = t.b
  /\ events' = t.ev
  /\ silence_stopped' = t.ss
  /\ lp' = lp

\* a handler run in one piece: no step of another thread falls inside it
Commit(t) ==
  Writes(t) /\ UNCHANGED <<operation_lock, pc, bm_threads, returned, engine_calls>>

DoPlay(source) ==
  Commit(Play(Bundle, source).s) /\ UNCHANGED <<now, tasks>>

DoPause(source) ==
  Commit(Pause(Bundle, source).s) /\ UNCHANGED <<now, tasks>>

DoResume(source) ==
  Commit(Resume(Bundle, source).s) /\ UNCHANGED <<now, tasks>>

DoStop(source) ==
  Commit(Stop(Bundle, source).s) /\ UNCHANGED <<now, tasks>>

DoNextCue(source) ==
  Commit(NextCue(Bundle, source).s) /\ UNCHANGED <<now, tasks>>

DoSeek(source) ==
  \E position \in SeekPositions :
    Commit(Seek(Bundle, position, source).s) /\ UNCHANGED <<now, tasks>>

DoReplay(source) ==
  Commit(Replay(Bundle, source).s) /\ UNCHANGED <<now, tasks>>

DoSwitchMode ==
  \E mode \in {AUTO, MANUAL} :
    Commit(SwitchMode(Bundle, mode).s) /\ UNCHANGED <<now, tasks>>

DoSetManualAudio ==
  \E i \in 1..Len(cm.audio_files) :
    Commit(SetManualAudio(Bundle, cm.audio_files[i]).s)
    /\ UNCHANGED <<now, tasks>>

DoSetManualStartPosition ==
  \E position \in StartPositions :
    Commit(SetManualStartPosition(Bundle, position).s)
    /\ UNCHANGED <<now, tasks>>

DoSetManualSilenceBefore ==
  \E duration \in SilenceInputs :
    Commit(SetManualSilenceBefore(Bundle, duration).s)
    /\ UNCHANGED <<now, tasks>>

DoRestoreBreakpoint ==
  \E audio_id \in AudioIds, bp_id \in 1..MaxBreakpoints :
    Commit(RestoreBreakpoint(Bundle, audio_id, bp_id).s)
    /\ UNCHANGED <<now, tasks>>

DoPlayNewBgm ==
  \E i \in 1..Len(cm.audio_files), start_pos \in StartPositions :
    Commit(PlayNewBgm(Bundle, cm.audio_files[i], start_pos).s)
    /\ UNCHANGED <<now, tasks>>

\* ------------------------------------------------------- LongPressHandler
\* Each handler returns the handler's fields (h), the LongPressResult it
\* returns or stores, and whether it ran the confirm callback (confirmed)
\* and the cancel callback (cancelled).
DurationInputs == {0, 1, 2}

LpGetElapsedMs(h) ==
  IF h.press_start = NoTime THEN 0 ELSE now - h.press_start

\* a threshold test that any press passes
LpCheckDuration_Always(h) == TRUE

LpCheckDuration(h) == LpGetElapsedMs(h) >= h.duration_ms

LpOnPress(h) ==
  [h EXCEPT !.press_start = now, !.state = "pressing", !.confirms = 0]

LpOnRelease(h) ==
  IF h.state # "pressing"
  THEN LET result == [success |-> FALSE, duration_ms |-> 0,
                      state |-> "cancelled"]
       IN [h |-> [h EXCEPT !.last_result = result], result |-> result,
           confirmed |-> FALSE, cancelled |-> FALSE]
  ELSE
    LET duration_ms == LpGetElapsedMs(h) IN
    IF LpCheckDuration(h)
    THEN LET result == [success |-> TRUE, duration_ms |-> duration_ms,
                        state |-> "completed"]
         IN [h |-> [h EXCEPT !.state = "completed", !.last_result = result,
                             !.press_start = NoTime,
                             !.confirms = h.confirms + 1],
             result |-> result, confirmed |-> TRUE, cancelled |-> FALSE]
    ELSE LET result == [success |-> FALSE, duration_ms |-> duration_ms,
                        state |-> "cancelled"]
         IN [h |-> [h EXCEPT !.state = "cancelled", !.last_result = result,
                             !.press_start = NoTime],
             result |-> result, confirmed |-> FALSE, cancelled |-> TRUE]

LpCancel(h) ==
  LET result == [success |-> FALSE, duration_ms |-> LpGetElapsedMs(h),
                 state |-> "cancelled"]
  IN [h |-> [h EXCEPT !.state = "cancelled", !.press_start = NoTime,
                      !.last_result = result],
      result |-> result, confirmed |-> FALSE, cancelled |-> TRUE]

LpOnLeave(h) ==
  IF h.state = "pressing" THEN LpCancel(h)
  ELSE [h |-> h, result |-> h.last_result, confirmed |-> FALSE,
        cancelled |-> FALSE]

LpReset(h) ==
  [h EXCEPT !.press_start = NoTime, !.state = "idle",
            !.last_result = NoResult]

LpSetDuration(h, duration_ms) == [h EXCEPT !.duration_ms = duration_ms]

LpStep(btn, h) ==
  /\ lp' = [lp EXCEPT ![btn] = h]
  /\ events' = <<>>
  /\ UNCHANGED <<ctl, eng, cm, bps, now, tasks, silence_stopped,
                 operation_lock, pc, bm_threads, returned, engine_calls>>

DoLpPress == \E btn \in Buttons : LpStep(btn, LpOnPress(lp[btn]))

DoLpRelease == \E btn \in Buttons : LpStep(btn, LpOnRelease(lp[btn]).h)

DoLpLeave == \E btn \in Buttons : LpStep(btn, LpOnLeave(lp[btn]).h)

DoLpCancel == \E btn \in Buttons : LpStep(btn, LpCancel(lp[btn]).h)

DoLpReset == \E btn \in Buttons : LpStep(btn, LpReset(lp[btn]))

DoLpSetDuration ==
  \E btn \in Buttons, duration_ms \in DurationInputs :
    LpStep(btn, LpSetDuration(lp[btn], duration_ms))

\* ------------------------------------- BreakpointManager used on its own
\* the ids a panel or a client may name, and the lists clear_selected gets
BpIdInputs == 1..(MaxStored + 1)

SelectedLists ==
  {<<>>} \cup {<<i>> : i \in BpIdInputs}
         \cup {<<i, j>> : i \in BpIdInputs, j \in BpIdInputs}

BpStep(b) ==
  /\ BreakpointCount(b) <= MaxStored
  /\ bps' = b
  /\ events' = <<>>
  /\ UNCHANGED <<ctl, eng, cm, now, tasks, silence_stopped, lp, operation_lock, pc,
                 bm_threads, returned, engine_calls>>

DoSaveBreakpoint ==
  \E audio_id \in AudioIds, position \in StartPositions,
     auto_saved \in BOOLEAN :
    BpStep(BmSaveBreakpoint(bps, audio_id, position, "", auto_saved))

DoDeleteBreakpoint ==
  \E audio_id \in AudioIds, bp_id \in BpIdInputs :
    BpStep(BmDeleteBreakpoint(bps, audio_id, bp_id).b)

DoClearAudio ==
  \E audio_id \in AudioIds : BpStep(BmClearAudioBreakpoints(bps, audio_id))

DoClearSelected ==
  \E bp_ids \in SelectedLists : BpStep(BmClearSelected(bps, bp_ids).b)

\* ---------------------------- BreakpointManager called from several threads
\* The class has no lock.  save_breakpoint changes the store in one
\* list.append; delete_breakpoint and clear_selected build the filtered list
\* from the stored one (Read) and assign it to the dictionary afterwards
\* (Write), and another thread can run in between.  Return values are not
\* part of the state and are left out.  A uuid4 is never an id that some
\* caller already names, and callers name ids they have seen in the store.
InFlightIds == UNION {bm_threads[t].bp_id_set : t \in StoreThreads}

RaceStep(b) ==
  /\ BreakpointCount(b) <= MaxRaced
  /\ bps' = b
  /\ events' = <<>>
  /\ UNCHANGED <<ctl, eng, cm, now, tasks, silence_stopped, lp,
                 operation_lock, pc, engine_calls>>

RaceSave ==
  \E t \in StoreThreads, audio_id \in AudioIds :
    /\ bm_threads[t] = NoCall
    /\ NewBreakpointId(bps) \notin InFlightIds
    /\ RaceStep(BmSaveBreakpoint(bps, audio_id, 0, "", FALSE))
    /\ returned' = returned \cup {NewBreakpointId(bps)}
    /\ UNCHANGED bm_threads

DeleteRead ==
  \E t \in StoreThreads, audio_id \in AudioIds, bp_id \in BreakpointIds(bps) :
    /\ bm_threads[t] = NoCall
    /\ bm_threads' = [bm_threads EXCEPT ![t] =
         [op |-> "delete", audio_id |-> audio_id,
          kept |-> SelectSeq(bps[audio_id], LAMBDA bp : bp.id # bp_id),
          bp_id_set |-> {bp_id}, todo |-> {}]]
    /\ returned' = returned \ {bp_id}
    /\ RaceStep(bps)

DeleteWrite ==
  \E t \in StoreThreads :
    /\ bm_threads[t].op = "delete"
    /\ RaceStep([bps EXCEPT ![bm_threads[t].audio_id] = bm_threads[t].kept])
    /\ bm_threads' = [bm_threads EXCEPT ![t] = NoCall]
    /\ UNCHANGED returned

ClearStart ==
  \E t \in StoreThreads, bp_ids \in SelectedLists :
    /\ bm_threads[t] = NoCall
    /\ {bp_ids[i] : i \in 1..Len(bp_ids)} \subseteq BreakpointIds(bps)
    /\ bm_threads' = [bm_threads EXCEPT ![t] =
         [op |-> "clear", audio_id |-> None, kept |-> <<>>,
          bp_id_set |-> {bp_ids[i] : i \in 1..Len(bp_ids)},
          todo |-> DOMAIN bps]]
    /\ returned' = returned \ {bp_ids[i] : i \in 1..Len(bp_ids)}
    /\ RaceStep(bps)

ClearRead ==
  \E t \in StoreThreads :
    /\ bm_threads[t].op = "clear"
    /\ bm_threads[t].audio_id = None
    /\ bm_threads[t].todo # {}
    /\ LET audio_id == CHOOSE a \in bm_threads[t].todo : TRUE IN
       bm_threads' = [bm_threads EXCEPT ![t] =
         [@ EXCEPT !.audio_id = audio_id,
                   !.kept = SelectSeq(bps[audio_id],
                              LAMBDA bp : bp.id \notin bm_threads[t].bp_id_set),
                   !.todo = @ \ {audio_id}]]
    /\ RaceStep(bps)
    /\ UNCHANGED returned

ClearWrite ==
  \E t \in StoreThreads :
    /\ bm_threads[t].op = "clear"
    /\ bm_threads[t].audio_id # None
    /\ RaceStep([bps EXCEPT ![bm_threads[t].audio_id] = bm_threads[t].kept])
    /\ bm_threads' = [bm_threads EXCEPT ![t] =
         IF bm_threads[t].todo = {} THEN NoCall
         ELSE [@ EXCEPT !.audio_id = None, !.kept = <<>>]]
    /\ UNCHANGED returned

DoAddListener ==
  \E event_type \in ListenerTypes, callback \in Callbacks :
    /\ Len(ctl.listeners[event_type]) < MaxListeners
    /\ Commit([Bundle EXCEPT !.c = AddListener(ctl, event_type, callback)])
    /\ UNCHANGED <<now, tasks>>

DoRemoveListener ==
  \E event_type \in ListenerTypes, callback \in Callbacks :
    /\ Commit([Bundle EXCEPT !.c = RemoveListener(ctl, event_type, callback)])
    /\ UNCHANGED <<now, tasks>>

DoPlaySfx ==
  \E sfx_id \in SfxIds :
    Commit(PlaySfx(Bundle, sfx_id).s) /\ UNCHANGED <<now, tasks>>

DoStopSfx ==
  \E sfx_id \in SfxIds :
    Commit(StopSfx(Bundle, sfx_id).s) /\ UNCHANGED <<now, tasks>>

DoToggleSfx ==
  \E sfx_id \in SfxIds :
    Commit(ToggleSfx(Bundle, sfx_id).s) /\ UNCHANGED <<now, tasks>>

\* the sound on an SFX channel plays to its end
SfxFinish ==
  \E ch \in 1..MaxSfxChannels :
    /\ eng.sfx_busy[ch]
    /\ eng' = [eng EXCEPT !.sfx_busy[ch] = FALSE]
    /\ events' = <<>>
    /\ UNCHANGED <<ctl, cm, bps, now, tasks, silence_stopped, lp, operation_lock, pc,
                 bm_threads, returned, engine_calls>>

\* --------------------------------------- AudioEngine methods step by step
\* _lock is a threading.Lock: `with self._lock` blocks while any thread,
\* the caller included, holds it.  A call is the list of its steps still to
\* run; a method called inside another one contributes its own steps.
EngineStopAllSfx(e) ==
  [e EXCEPT !.sfx_busy = [ch \in 1..MaxSfxChannels |-> FALSE],
            !.playing_sfx = [sfx_id \in SfxIds |-> 0]]

StopBgmSteps == <<"acquire", "stop_bgm", "release">>

StopAllSfxSteps == <<"acquire", "stop_all_sfx", "release">>

ShutdownSteps ==
  <<"acquire">> \o StopBgmSteps \o StopAllSfxSteps \o <<"quit", "release">>

\* Application._on_close runs on the window's thread
CallShutdown ==
  \E t \in {"gui"} :
    /\ engine_calls[t] = NoEngineCall
    /\ engine_calls' = [engine_calls EXCEPT ![t] =
         [op |-> "shutdown", todo |-> ShutdownSteps]]
    /\ events' = <<>>
    /\ UNCHANGED <<ctl, eng, cm, bps, now, tasks, silence_stopped, lp,
                   operation_lock, pc, bm_threads, returned>>

CallStopAllSfx ==
  \E t \in EngineThreads :
    /\ engine_calls[t] = NoEngineCall
    /\ engine_calls' = [engine_calls EXCEPT ![t] =
         [op |-> "stop_all_sfx", todo |-> StopAllSfxSteps]]
    /\ events' = <<>>
    /\ UNCHANGED <<ctl, eng, cm, bps, now, tasks, silence_stopped, lp,
                   operation_lock, pc, bm_threads, returned>>

EngineStepOf(e, t, step) ==
  CASE step = "acquire" -> [e EXCEPT !.lock = t]
    [] step = "release" -> [e EXCEPT !.lock = NoThread]
    [] step = "stop_bgm" -> EngineStopBgm(e)
    [] step = "stop_all_sfx" -> EngineStopAllSfx(e)
    [] step = "quit" ->
         [EngineStopAllSfx(e) EXCEPT !.busy = FALSE, !.initialized = FALSE]

EngineStep(t) ==
  /\ engine_calls[t].todo # <<>>
  /\ LET step == Head(engine_calls[t].todo)
         rest == Tail(engine_calls[t].todo)
     IN /\ step = "acquire" => eng.lock = NoThread
        /\ eng' = EngineStepOf(eng, t, step)
        /\ engine_calls' = [engine_calls EXCEPT ![t] =
             IF rest = <<>> THEN NoEngineCall ELSE [@ EXCEPT !.todo = rest]]
  /\ events' = <<>>
  /\ UNCHANGED <<ctl, cm, bps, now, tasks, silence_stopped, lp,
                 operation_lock, pc, bm_threads, returned>>

\* a controller call that takes and releases the engine lock inside one step
EngineLockFree == eng.lock = NoThread

\* ------------------------------------------- the remote port (APIServer)
\* The HTTP handlers; WebSocketManager._execute_command makes the same
\* controller calls for the commands it knows.
HandleSwitchMode(s, mode) == SwitchMode(s, mode)

HandleBgmVolume(s, volume) ==
  IF volume < 0 \/ volume > 3 THEN s ELSE SetBgmVolume(s, volume)

HandleSfxVolume(s, volume) ==
  IF volume < 0 \/ volume > 3 THEN s ELSE SetSfxVolume(s, volume)

HandlePlaySfx(s, sfx_id) ==
  IF GetAudioFile(s.m, sfx_id) = NoTrack THEN [s |-> s, ret |-> FALSE]
  ELSE PlaySfx(s, sfx_id)

HandleStopSfx(s, sfx_id) == StopSfx(s, sfx_id)

HandleToggleSfx(s, sfx_id) ==
  IF GetAudioFile(s.m, sfx_id) = NoTrack THEN [s |-> s, ret |-> FALSE]
  ELSE ToggleSfx(s, sfx_id)

\* get_current_audio / get_state: the PlaybackState snapshot
GetCurrentAudio(s) ==
  IF s.c.mode = MANUAL THEN s.c.manual_audio
  ELSE LET cue == GetCurrentCue(s.m) IN
       IF cue # NoCue THEN GetAudioFile(s.m, cue.audio_id) ELSE NoTrack

GetState(s) ==
  [mode |-> s.c.mode, is_playing |-> s.c.is_playing,
   is_paused |-> s.c.is_paused, current_audio_id |-> s.c.current_audio_id,
   current_position |-> GetCurrentPosition(s.c),
   current_cue_index |-> s.m.current_index,
   bgm_volume |-> s.c.bgm_volume, sfx_volume |-> s.c.sfx_volume,
   in_silence |-> s.c.in_silence,
   silence_remaining |-> s.c.silence_remaining,
   duration |-> IF GetCurrentAudio(s) # NoTrack
                THEN GetCurrentAudio(s).duration ELSE 0]

\* _on_state_changed: one broadcast_state coroutine handed to the server's
\* loop per state_changed event of the command. published is a history
\* field, the snapshot of the state the publishing command left; the code
\* keeps no such copy.
OnStateChanged(t) ==
  LET sc == SelectSeq(t.ev, LAMBDA ev : ev.type = "state_changed") IN
  [i \in 1..Len(sc) |->
     [kind |-> "broadcast_state", pc |-> "start", silence_duration |-> 0,
      event |-> sc[i].type, data |-> sc[i].data, published |-> GetState(t)]]

\* the message broadcast_state builds when the loop runs it
BroadcastMessage(s, task) ==
  [type |-> "event", event |-> task.event, data |-> task.data,
   state |-> GetState(s)]

\* a command with the server listening: its state_changed events are queued
Served(t) ==
  /\ Commit(t)
  /\ tasks' = tasks \o OnStateChanged(t)
  /\ Len(tasks') <= MaxBroadcasts
  /\ UNCHANGED now

ServedPlay(source) == Served(Play(Bundle, source).s)

ServedPause(source) == Served(Pause(Bundle, source).s)

ServedResume(source) == Served(Resume(Bundle, source).s)

ServedStop(source) == Served(Stop(Bundle, source).s)

ServedSetBgmVolume ==
  \E volume \in VolumeInputs : Served(SetBgmVolume(Bundle, volume))

\* the server's loop runs the oldest broadcast_state and sends its message
BroadcastState ==
  /\ Len(tasks) > 0
  /\ tasks[1].kind = "broadcast_state"
  /\ tasks' = Tail(tasks)
  /\ events' = <<>>
  /\ UNCHANGED <<ctl, eng, cm, bps, now, silence_stopped, lp, operation_lock, pc,
                 bm_threads, returned, engine_calls>>

DoHandleSwitchMode ==
  \E mode \in {AUTO, MANUAL} :
    Commit(HandleSwitchMode(Bundle, mode).s) /\ UNCHANGED <<now, tasks>>

DoHandleBgmVolume ==
  \E volume \in VolumeInputs :
    Commit(HandleBgmVolume(Bundle, volume)) /\ UNCHANGED <<now, tasks>>

DoHandleSfxVolume ==
  \E volume \in VolumeInputs :
    Commit(HandleSfxVolume(Bundle, volume)) /\ UNCHANGED <<now, tasks>>

DoHandlePlaySfx ==
  \E sfx_id \in SfxIds :
    Commit(HandlePlaySfx(Bundle, sfx_id).s) /\ UNCHANGED <<now, tasks>>

DoHandleStopSfx ==
  \E sfx_id \in SfxIds :
    Commit(HandleStopSfx(Bundle, sfx_id).s) /\ UNCHANGED <<now, tasks>>

DoHandleToggleSfx ==
  \E sfx_id \in SfxIds :
    Commit(HandleToggleSfx(Bundle, sfx_id).s) /\ UNCHANGED <<now, tasks>>

DoSetBgmVolume ==
  \E volume \in VolumeInputs :
    Commit(SetBgmVolume(Bundle, volume)) /\ UNCHANGED <<now, tasks>>

DoSetSfxVolume ==
  \E volume \in VolumeInputs :
    Commit(SetSfxVolume(Bundle, volume)) /\ UNCHANGED <<now, tasks>>

DoSkipSilence ==
  Commit(SkipSilence(Bundle).s) /\ UNCHANGED <<now, tasks>>

SetLocalPriority(s, enabled) == [s EXCEPT !.c.local_priority = enabled]

DoSetLocalPriority ==
  \E enabled \in BOOLEAN :
    Commit(SetLocalPriority(Bundle, enabled)) /\ UNCHANGED <<now, tasks>>

DoProcessPendingOps ==
  Commit(ProcessPendingOps(Bundle).s) /\ UNCHANGED <<now, tasks>>

DoClearAudioBreakpoints ==
  \E audio_id \in AudioIds :
    Commit([Bundle EXCEPT !.b = BmClearAudioBreakpoints(bps, audio_id)])
    /\ UNCHANGED <<now, tasks>>

\* cue_manager.set_index(index), as the cue list's double click calls it
DoSetIndex ==
  \E index \in 0..Len(cm.cue_list) :
    Commit([Bundle EXCEPT !.m = SetIndexOf(cm, index)])
    /\ UNCHANGED <<now, tasks>>

\* --------------------------------------- commands on their own threads
\* run_async gives every command of the window a thread of its own; the
\* command passes _check_priority and then takes _operation_lock, which
\* blocks while another thread holds it.
LockedOps == {"play", "pause", "resume", "stop", "next_cue"}

Enter ==
  \E t \in CommandThreads, op \in LockedOps :
    /\ pc[t] = Idle
    /\ CheckPriority(ctl, Local)
    /\ operation_lock = NoThread
    /\ operation_lock' = t
    /\ pc' = [pc EXCEPT ![t] = op]
    /\ events' = <<>>
    /\ UNCHANGED <<ctl, eng, cm, bps, now, tasks, silence_stopped, lp,
                   bm_threads, returned, engine_calls>>

\* the body of the `with` block of the command thread t is in
LockedBody(t) ==
  CASE pc[t] = "play" -> Play(Bundle, Local).s
    [] pc[t] = "pause" -> Pause(Bundle, Local).s
    [] pc[t] = "resume" -> Resume(Bundle, Local).s
    [] pc[t] = "stop" -> Stop(Bundle, Local).s
    [] pc[t] = "next_cue" -> NextCue(Bundle, Local).s

\* the block runs and the lock is released on leaving it
Leave ==
  \E t \in CommandThreads :
    /\ pc[t] # Idle
    /\ operation_lock = t
    /\ Writes(LockedBody(t))
    /\ operation_lock' = NoThread
    /\ pc' = [pc EXCEPT ![t] = Idle]
    /\ UNCHANGED <<now, tasks, bm_threads, returned, engine_calls>>

\* time.time() moves on
Tick ==
  /\ now < MaxTime
  /\ now' = now + 1
  /\ events' = <<>>
  /\ UNCHANGED <<ctl, eng, cm, bps, tasks, silence_stopped, lp, operation_lock, pc,
                 bm_threads, returned, engine_calls>>

\* the sound on channel 0 plays to its end: the channel is no longer busy
BgmFinish ==
  /\ eng.busy /\ ~eng.bgm_is_paused
  /\ eng' = [eng EXCEPT !.busy = FALSE]
  /\ events' = <<>>
  /\ UNCHANGED <<ctl, cm, bps, now, tasks, silence_stopped, lp, operation_lock, pc,
                 bm_threads, returned, engine_calls>>

\* AudioEngine.check_bgm_end(): calls _on_bgm_end once the BGM has ended.
\* create_task raises RuntimeError, which _on_bgm_end swallows, when the
\* calling thread runs no event loop (loop = FALSE).
CheckBgmEndGuard(e) ==
  e.current_bgm # None /\ ~e.busy /\ ~e.bgm_is_paused

CheckBgmEnd ==
  \E loop \in BOOLEAN :
    /\ CheckBgmEndGuard(eng)
    /\ LET t == OnBgmEnd(Bundle)
           spawn == ctl.mode = AUTO /\ loop
       IN /\ spawn => Len(tasks) < MaxTasks
          /\ Commit([t EXCEPT !.e.current_bgm = None])
          /\ tasks' = IF spawn THEN Append(tasks, SpawnedTask(t)) ELSE tasks
          /\ UNCHANGED now

\* _handle_auto_next up to its first asyncio.sleep
TaskStartSilence ==
  \E i \in 1..Len(tasks) :
    /\ tasks[i].kind = "handle_auto_next" /\ tasks[i].pc = "start"
    /\ Commit(StartSilence(Bundle, tasks[i].silence_duration, FALSE))
    /\ tasks' = [tasks EXCEPT ![i].pc = "sleep"]
    /\ UNCHANGED now

\* the sleep returns and update_silence() reads the flag and the clock; when
\* the flag is already down the loop ends and _auto_advance runs
TaskWake ==
  \E i \in 1..Len(tasks) :
    /\ tasks[i].kind = "handle_auto_next" /\ tasks[i].pc = "sleep"
    /\ IF ~ctl.in_silence
       THEN /\ Commit(AutoAdvance(Bundle))
            /\ tasks' = RemoveAt(tasks, i)
       ELSE /\ Commit(UpdateSilenceRead(Bundle))
            /\ tasks' = IF UpdateSilenceExpired(Bundle)
                        THEN [tasks EXCEPT ![i].pc = "expired"]
                        ELSE tasks
    /\ UNCHANGED now

\* update_silence() found the silence over: it clears the flag, publishes
\* silence_ended, the loop ends and _auto_advance runs
TaskExpire ==
  \E i \in 1..Len(tasks) :
    /\ tasks[i].kind = "handle_auto_next" /\ tasks[i].pc = "expired"
    /\ Commit(AutoAdvance(UpdateSilenceWrite(Bundle)))
    /\ tasks' = RemoveAt(tasks, i)
    /\ UNCHANGED now

\* the task created for a cue without silence_after
TaskAutoAdvance ==
  \E i \in 1..Len(tasks) :
    /\ tasks[i].kind = "auto_advance"
    /\ Commit(AutoAdvance(Bundle))
    /\ tasks' = RemoveAt(tasks, i)
    /\ UNCHANGED now

\* --------------------------------------------------- CueManager operations
CuePool == {Cue0, Cue1, Cue2}

CatStep(m) ==
  /\ Len(m.cue_list) <= MaxCues
  /\ Len(m.audio_files) <= MaxAudioFiles
  /\ cm' = m
  /\ events' = <<>>
  /\ UNCHANGED <<ctl, eng, bps, now, tasks, silence_stopped, lp, operation_lock, pc,
                 bm_threads, returned, engine_calls>>

DoAddCue ==
  \E cue \in CuePool : CatStep(CmAddCue(cm, cue))

DoInsertCue ==
  \E cue \in CuePool, index \in 0..(Len(cm.cue_list) + 1) :
    CatStep(CmInsertCue(cm, index, cue))

DoRemoveCue ==
  \E cue \in CuePool : CatStep(CmRemoveCue(cm, cue.id))

DoMoveCue ==
  \E from_index \in 0..Len(cm.cue_list), to_index \in 0..Len(cm.cue_list) :
    CatStep(CmMoveCue(cm, from_index, to_index))

DoClearCues == CatStep(CmClearCues(cm))

DoCatSetIndex ==
  \E index \in 0..(Len(cm.cue_list) + 1) : CatStep(SetIndexOf(cm, index))

DoAdvance == CatStep(Advance(cm))

DoLoadFromConfig ==
  \E n \in 0..Len(ConfigCues) :
    CatStep(CmLoadFromConfig(cm, SubSeq(ConfigCues, 1, n), ConfigAudioFiles))

DoAddAudioFile ==
  \E audio \in {TrackA, TrackB} : CatStep(CmAddAudioFile(cm, audio))

DoRemoveAudioFile ==
  \E audio_id \in AudioIds : CatStep(CmRemoveAudioFile(cm, audio_id).m)

\* ----------------------------------------------------------- specifications
\* The playback state machine: the operator's commands in both modes.
Next ==
  \/ DoPlay(Local)
  \/ DoPause(Local)
  \/ DoResume(Local)
  \/ DoStop(Local)
  \/ DoNextCue(Local)
  \/ DoSeek(Local)
  \/ DoReplay(Local)
  \/ DoSkipSilence
  \/ DoSwitchMode
  \/ DoClearAudioBreakpoints
  \/ Tick

Spec == Init /\ [][Next]_vars

\* Running the cue list: the transport commands and the cue step.
NextShow ==
  \/ DoPlay(Local)
  \/ DoPause(Local)
  \/ DoResume(Local)
  \/ DoStop(Local)
  \/ DoNextCue(Local)
  \/ DoSkipSilence
  \/ DoSwitchMode
  \/ Tick

SpecShow == Init /\ [][NextShow]_vars

\* The manual-mode panel: the operator picks the audio and its silence.
NextManual ==
  \/ DoPlay(Local)
  \/ DoPause(Local)
  \/ DoResume(Local)
  \/ DoStop(Local)
  \/ DoSwitchMode
  \/ DoSetManualAudio
  \/ DoSetManualSilenceBefore
  \/ DoClearAudioBreakpoints
  \/ Tick

SpecManual == Init /\ [][NextManual]_vars

\* BGM mutex: every command that can put another audio on the BGM slot.
NextBgm ==
  \/ DoPlay(Local)
  \/ DoPause(Local)
  \/ DoStop(Local)
  \/ DoNextCue(Local)
  \/ DoReplay(Local)
  \/ DoPlayNewBgm
  \/ DoRestoreBreakpoint
  \/ DoSetIndex
  \/ DoClearAudioBreakpoints
  \/ Tick

SpecBgm == Init /\ [][NextBgm]_vars

\* Natural BGM end and the silence scheduler, with the commands that end a
\* silence wait.
NextEnd ==
  \/ DoPlay(Local)
  \/ DoStop(Local)
  \/ DoNextCue(Local)
  \/ DoSkipSilence
  \/ DoSwitchMode
  \/ Tick
  \/ BgmFinish
  \/ CheckBgmEnd
  \/ TaskStartSilence
  \/ TaskWake
  \/ TaskExpire
  \/ TaskAutoAdvance

SpecEnd == Init /\ [][NextEnd]_vars

\* A silence wait left to the kernel: the operator issues commands only
\* while no silence is pending; the clock, the mixer and the kernel's own
\* tasks keep running.
NoSilencePending == ~ctl.in_silence

NextPre ==
  \/ NoSilencePending /\ DoPlay(Local)
  \/ NoSilencePending /\ DoNextCue(Local)
  \/ NoSilencePending /\ DoSwitchMode
  \/ NoSilencePending /\ DoSetManualAudio
  \/ NoSilencePending /\ DoSetManualSilenceBefore
  \/ Tick
  \/ BgmFinish
  \/ CheckBgmEnd
  \/ TaskStartSilence
  \/ TaskWake
  \/ TaskExpire
  \/ TaskAutoAdvance

\* the clock and the event loop's tasks are never starved
SpecPre ==
  /\ Init
  /\ [][NextPre]_vars
  /\ WF_vars(Tick)
  /\ WF_vars(CheckBgmEnd)
  /\ WF_vars(TaskStartSilence \/ TaskWake \/ TaskExpire \/ TaskAutoAdvance)

\* Natural BGM end when the track may have been started by replay.
NextEndReplay ==
  \/ DoPlay(Local)
  \/ DoStop(Local)
  \/ DoNextCue(Local)
  \/ DoReplay(Local)
  \/ DoSwitchMode
  \/ Tick
  \/ BgmFinish
  \/ CheckBgmEnd
  \/ TaskStartSilence
  \/ TaskWake
  \/ TaskExpire
  \/ TaskAutoAdvance

SpecEndReplay == Init /\ [][NextEndReplay]_vars

\* Closing the window while sounds play: every thread that is inside an
\* engine method keeps running, and a thread waiting for a lock that is
\* free again and again gets it.
NextShutdown ==
  \/ EngineLockFree /\ DoPlay(Local)
  \/ EngineLockFree /\ DoPlaySfx
  \/ SfxFinish
  \/ BgmFinish
  \/ CallShutdown
  \/ CallStopAllSfx
  \/ \E t \in EngineThreads : EngineStep(t)

SpecShutdown ==
  /\ Init
  /\ [][NextShutdown]_vars
  /\ \A t \in EngineThreads : SF_vars(EngineStep(t))

\* The breakpoint store used by two threads at once.
NextBpRace ==
  \/ RaceSave
  \/ DeleteRead
  \/ DeleteWrite
  \/ ClearStart
  \/ ClearRead
  \/ ClearWrite

SpecBpRace == Init /\ [][NextBpRace]_vars

\* Commands on run_async threads next to the callers that take no lock:
\* the window's set_manual_audio, the engine's end-of-BGM callback and the
\* silence tasks.
NextLock ==
  \/ Enter
  \/ Leave
  \/ DoSetManualAudio
  \/ Tick
  \/ BgmFinish
  \/ CheckBgmEnd
  \/ TaskStartSilence
  \/ TaskWake
  \/ TaskExpire
  \/ TaskAutoAdvance

SpecLock == Init /\ [][NextLock]_vars

\* The priority arbiter: local and remote sources, the queue and its drain.
NextPrio ==
  \/ DoPlay(Local)
  \/ DoStop(Local)
  \/ DoPlay(Remote)
  \/ DoPause(Remote)
  \/ DoResume(Remote)
  \/ DoStop(Remote)
  \/ DoNextCue(Remote)
  \/ DoSeek(Remote)
  \/ DoReplay(Remote)
  \/ DoSetLocalPriority
  \/ DoProcessPendingOps

SpecPrio == Init /\ [][NextPrio]_vars

\* Remote commands arriving while the operator works under local priority.
NextDefer ==
  \/ DoPlay(Local)
  \/ DoPause(Local)
  \/ DoStop(Local)
  \/ DoNextCue(Local)
  \/ DoSeek(Local)
  \/ DoReplay(Local)
  \/ DoPlay(Remote)
  \/ DoPause(Remote)
  \/ DoResume(Remote)
  \/ DoStop(Remote)
  \/ DoNextCue(Remote)
  \/ DoSeek(Remote)
  \/ DoReplay(Remote)

SpecDefer == Init /\ [][NextDefer]_vars

\* The SFX pads and the two volume sliders of the operator's window.
NextSfx ==
  \/ DoPlaySfx
  \/ DoStopSfx
  \/ DoToggleSfx
  \/ SfxFinish
  \/ DoSetBgmVolume
  \/ DoSetSfxVolume

SpecSfx == Init /\ [][NextSfx]_vars

\* The remote port while the operator keeps local priority.
NextRemote ==
  \/ DoPlay(Local)
  \/ DoStop(Local)
  \/ DoPlay(Remote)
  \/ DoStop(Remote)
  \/ DoHandleSwitchMode
  \/ DoHandleBgmVolume
  \/ DoHandleSfxVolume
  \/ DoHandlePlaySfx
  \/ DoHandleStopSfx
  \/ DoHandleToggleSfx
  \/ SfxFinish

SpecRemote == Init /\ [][NextRemote]_vars

\* Commands of the operator's window (each on a thread of its own) while the
\* server's loop sends the broadcasts.
NextBroadcast ==
  \/ ServedPlay(Local)
  \/ ServedPause(Local)
  \/ ServedResume(Local)
  \/ ServedStop(Local)
  \/ ServedSetBgmVolume
  \/ BroadcastState

SpecBroadcast == Init /\ [][NextBroadcast]_vars

\* Panels subscribing and unsubscribing while commands publish events.
NextListeners ==
  \/ DoAddListener
  \/ DoRemoveListener
  \/ DoPlay(Local)
  \/ DoPause(Local)
  \/ DoStop(Local)

SpecListeners == Init /\ [][NextListeners]_vars

\* The breakpoint store edited from the panels and the remote port.
NextBp ==
  \/ DoSaveBreakpoint
  \/ DoDeleteBreakpoint
  \/ DoClearAudio
  \/ DoClearSelected

SpecBp == Init /\ [][NextBp]_vars

\* A long-press button: mouse events in any order while time passes.
NextLp ==
  \/ DoLpPress
  \/ DoLpRelease
  \/ DoLpLeave
  \/ DoLpCancel
  \/ DoLpReset
  \/ DoLpSetDuration
  \/ Tick

SpecLp == Init /\ [][NextLp]_vars

\* The commands whose events the panels listen to.
NextEvents ==
  \/ DoPlay(Local)
  \/ DoPause(Local)
  \/ DoStop(Local)
  \/ DoNextCue(Local)
  \/ DoSeek(Local)
  \/ DoSetBgmVolume
  \/ DoSetSfxVolume
  \/ Tick

SpecEvents == Init /\ [][NextEvents]_vars

\* Replaying in both modes from every playback state.
NextReplay ==
  \/ DoPlay(Local)
  \/ DoPause(Local)
  \/ DoStop(Local)
  \/ DoNextCue(Local)
  \/ DoReplay(Local)
  \/ DoSwitchMode
  \/ Tick

SpecReplay == Init /\ [][NextReplay]_vars

\* Seeking in whatever the BGM slot holds.
NextSeek ==
  \/ DoPlay(Local)
  \/ DoPause(Local)
  \/ DoStop(Local)
  \/ DoSeek(Local)
  \/ DoPlayNewBgm
  \/ DoSwitchMode
  \/ DoClearAudioBreakpoints
  \/ Tick

SpecSeek == Init /\ [][NextSeek]_vars

\* Breakpoints restored while the catalog loses audio files.
NextRestore ==
  \/ DoPlay(Local)
  \/ DoPause(Local)
  \/ DoResume(Local)
  \/ DoStop(Local)
  \/ DoNextCue(Local)
  \/ DoRestoreBreakpoint
  \/ DoRemoveAudioFile
  \/ DoClearAudioBreakpoints
  \/ Tick

SpecRestore == Init /\ [][NextRestore]_vars

\* The cue catalog, edited from empty.
NextCat ==
  \/ DoAddCue
  \/ DoInsertCue
  \/ DoRemoveCue
  \/ DoMoveCue
  \/ DoClearCues
  \/ DoCatSetIndex
  \/ DoAdvance
  \/ DoLoadFromConfig

SpecCat == InitCat /\ [][NextCat]_vars

\* The catalog's audio files and the cues that refer to them.
NextAudio ==
  \/ DoAddAudioFile
  \/ DoRemoveAudioFile
  \/ DoAddCue
  \/ DoRemoveCue
  \/ DoClearCues
  \/ DoLoadFromConfig

SpecAudio == InitCat /\ [][NextAudio]_vars

\* ------------------------------------------------------------- type check
TypeOK ==
  /\ ctl.mode \in {AUTO, MANUAL}
  /\ ctl.is_playing \in BOOLEAN /\ ctl.is_paused \in BOOLEAN
  /\ ctl.current_audio_id \in AudioIds \cup {None}
  /\ ctl.in_silence => ctl.silence_start_time # NoTime
  /\ now \in 0..MaxTime
  /\ Len(tasks) <= MaxTasks

\* ------------------------------------------------------------- properties
\* C1: in every state reachable by controller commands, is_paused implies
\* is_playing.
C1_PausedImpliesPlaying == ctl.is_paused => ctl.is_playing

\* C2: in every reachable state in_silence implies not is_playing, and
\* silence_remaining is never negative.
C2_SilenceExcludesPlaying ==
  /\ ctl.in_silence => ~ctl.is_playing
  /\ ctl.silence_remaining >= 0

\* C3: after any sequence of catalog operations from an empty catalog,
\* current_index is in [0, number of cues) when the cue list is non-empty
\* and 0 when it is empty.
C3_IndexInRange ==
  IF Len(cm.cue_list) = 0
  THEN cm.current_index = 0
  ELSE cm.current_index \in 0..(Len(cm.cue_list) - 1)

\* C4: a resume issued right after a pause that recorded position P for the
\* sounding audio A restarts the same audio A at P and leaves is_playing
\* true and is_paused false.
C4_ResumeAfterPause ==
  (Len(events) > 0 /\ events[1].type = "playback_paused") =>
    LET r == Resume(Bundle, Local) IN
    /\ r.ret
    /\ r.s.e.current_bgm = eng.current_bgm
    /\ r.s.e.bgm_start_pos = events[1].data.position
    /\ r.s.c.is_playing
    /\ ~r.s.c.is_paused

\* C5: whenever a step replaces the sounding BGM A by a different audio
\* while is_playing and not is_paused, the step appends an auto_saved
\* breakpoint for A at A's position at that instant.
C5_AutoBreakpointOnBgmChange ==
  [][ ( /\ ctl.is_playing /\ ~ctl.is_paused
        /\ eng.current_bgm # None /\ eng.busy
        /\ eng'.current_bgm # None
        /\ eng'.current_bgm # eng.current_bgm )
      => LET A == eng.current_bgm
             n == Len(bps'[A])
         IN /\ n = Len(bps[A]) + 1
            /\ bps'[A][n].auto_saved
            /\ bps'[A][n].audio_id = A
            /\ bps'[A][n].position = GetCurrentPosition(ctl) ]_vars

\* C6: play_new_bgm(A', p) always ends with is_playing true, is_paused
\* false, current_audio_id = A' and position p; it adds exactly one
\* breakpoint (auto_saved, for the outgoing current_audio_id, at that
\* audio's position) if and only if the kernel was playing and not paused,
\* and none when stopped or paused.
C6_PlayNewBgm ==
  \A audio \in {TrackA, TrackB}, p \in StartPositions :
    LET r == PlayNewBgm(Bundle, audio, p)
        c == r.s.c
        old == ctl.current_audio_id
    IN /\ c.is_playing /\ ~c.is_paused
       /\ c.current_audio_id = audio.id
       /\ c.current_position = p
       /\ r.s.e.current_bgm = audio.id /\ r.s.e.bgm_start_pos = p
       /\ IF ctl.is_playing /\ ~ctl.is_paused
          THEN /\ old \in AudioIds
               /\ r.s.b = [bps EXCEPT ![old] =
                    Append(@, [id |-> NewBreakpointId(bps), audio_id |-> old,
                               position |-> GetCurrentPosition(ctl),
                               label |-> "auto", auto_saved |-> TRUE])]
          ELSE r.s.b = bps

\* C10: once stop has ended a silence wait, no silence_ended event is
\* published for that silence episode.
C10_NoSilenceEndedAfterStop ==
  silence_stopped => \A i \in 1..Len(events) : events[i].type # "silence_ended"

\* C7: while local_priority is enabled, a remote play, pause, resume, stop,
\* next_cue, seek or replay returns false, is appended at the tail of
\* pending_remote_ops, and leaves the playback state, cue index, breakpoint
\* store and mixer unchanged.
C7_RemoteDeferred ==
  ctl.local_priority =>
    LET queued(op, kwargs) ==
          [Bundle EXCEPT !.c.pending_remote_ops =
             Append(@, [op |-> op, source |-> Remote, kwargs |-> kwargs])]
        deferred(r, op, kwargs) == ~r.ret /\ r.s = queued(op, kwargs)
    IN /\ deferred(Play(Bundle, Remote), "play", <<>>)
       /\ deferred(Pause(Bundle, Remote), "pause", <<>>)
       /\ deferred(Resume(Bundle, Remote), "resume", <<>>)
       /\ deferred(Stop(Bundle, Remote), "stop", <<>>)
       /\ deferred(NextCue(Bundle, Remote), "next_cue", <<>>)
       /\ deferred(Replay(Bundle, Remote), "replay", <<>>)
       /\ \A position \in SeekPositions :
            deferred(Seek(Bundle, position, Remote), "seek", <<position>>)

\* a remote seek has been deferred while the kernel was playing under local
\* priority
C7_Witness ==
  /\ ctl.local_priority
  /\ ctl.is_playing /\ ~ctl.is_paused
  /\ Len(ctl.pending_remote_ops) > 0
  /\ ctl.pending_remote_ops[Len(ctl.pending_remote_ops)].op = "seek"
  /\ ctl.pending_remote_ops[Len(ctl.pending_remote_ops)].source = Remote
  /\ events = <<>>

\* C8: each call to process_pending_ops with a non-empty queue removes
\* exactly the oldest operation and executes it, so the queue is one shorter
\* after the call; a remote play deferred while stopped takes the kernel to
\* playing after one call with local priority still held.
C8_DrainOne ==
  Len(ctl.pending_remote_ops) > 0 =>
    LET r == ProcessPendingOps(Bundle)
        op_info == Head(ctl.pending_remote_ops)
    IN /\ r.s.c.pending_remote_ops = Tail(ctl.pending_remote_ops)
       /\ (op_info.op = "play" /\ ~ctl.is_playing /\ ~ctl.in_silence)
            => (r.s.c.is_playing \/ r.s.c.in_silence)

\* C9: a local next_cue in AUTO mode increases current_index by exactly 1
\* below the last index, and leaves it unchanged and returns false at the
\* last index; in MANUAL mode it returns false and changes neither the
\* index nor the playback state.
C9_NextCueIndex ==
  LET r == NextCue(Bundle, Local)
      last == Len(cm.cue_list) - 1
  IN IF ctl.mode = AUTO
     THEN /\ cm.current_index < last
               => r.s.m.current_index = cm.current_index + 1
          /\ cm.current_index = last
               => /\ r.s.m.current_index = cm.current_index
                  /\ ~r.ret
     ELSE /\ ~r.ret
          /\ r.s = Bundle

\* a local next_cue issued while playing has moved the kernel to the second
\* cue and published cue_changed
C9_Witness ==
  /\ ctl.mode = AUTO
  /\ cm.current_index = 1
  /\ Len(events) > 0
  /\ events[1].type = "cue_changed"
  /\ events[1].data.cue_index = 1
  /\ ctl.is_playing

\* C11: in AUTO mode, when the BGM of cue i (silence_after > 0, cue i+1 with
\* silence_before = 0) ends naturally and no command intervenes, the kernel
\* publishes playback_completed, silence_started, silence_ended, cue_changed
\* and playback_started in that order and ends playing cue i+1: the BGM-end
\* callback publishes playback_completed and leaves the silence task behind,
\* the task publishes silence_started, and on expiry of the untouched
\* silence it publishes the last three events and starts cue i+1 at its
\* start_time.
C11_AutoEndSequence ==
  [][ LET i == cm.current_index
      types(ev) == [k \in 1..Len(ev) |-> ev[k].type]
      chained == /\ ctl.mode = AUTO
                 /\ i + 1 < Len(cm.cue_list)
                 /\ cm.cue_list[i + 1].silence_after > 0
                 /\ cm.cue_list[i + 2].silence_before = 0
      next == cm.cue_list[i + 2]
  IN     /\ ( /\ CheckBgmEnd /\ chained
              /\ ctl.is_playing /\ ~ctl.is_paused
              /\ eng.current_bgm = cm.cue_list[i + 1].audio_id )
            => /\ types(events') = <<"playback_completed", "state_changed">>
               /\ ~ctl'.is_playing
               /\ \E k \in 1..Len(tasks') :
                    tasks'[k] = [kind |-> "handle_auto_next", pc |-> "start",
                                 silence_duration |->
                                   cm.cue_list[i + 1].silence_after]
         /\ (TaskStartSilence /\ chained /\ ~ctl.is_playing /\ ~ctl.in_silence)
            => /\ types(events') = <<"silence_started", "state_changed">>
               /\ ctl'.in_silence
         /\ (TaskExpire /\ chained /\ ~ctl.is_playing /\ ctl.in_silence)
            => /\ types(events') =
                    <<"silence_ended", "state_changed", "cue_changed",
                      "state_changed", "playback_started", "state_changed">>
               /\ ctl'.is_playing /\ ~ctl'.is_paused /\ ~ctl'.in_silence
               /\ cm'.current_index = i + 1
               /\ ctl'.current_audio_id = next.audio_id
               /\ eng'.current_bgm = next.audio_id
               /\ ctl'.current_position = next.start_time
       ]_vars

\* C12: remove_audio_file(id) returns false and leaves the audio list and
\* the cue list unchanged whenever at least one cue has audio_id = id.
C12_RemoveReferencedAudioRefused ==
  \A audio_id \in AudioIds :
    (\E i \in 1..Len(cm.cue_list) : cm.cue_list[i].audio_id = audio_id)
      => LET r == CmRemoveAudioFile(cm, audio_id)
         IN ~r.ret /\ r.m = cm

\* C13: for every valid move_cue and every remove_cue of a cue other than
\* the current one, the cue at current_index afterwards has the same id as
\* before; removing the current cue leaves current_index on the cue that
\* followed it, or on the last remaining cue if none followed, or at 0 if
\* the list became empty.
C13_IndexFollowsCue ==
  LET cur == cm.current_index
      n == Len(cm.cue_list)
  IN   /\ \A from_index \in 0..(n - 1), to_index \in 0..(n - 1) :
            GetCurrentCue(CmMoveCue(cm, from_index, to_index)).id
              = GetCurrentCue(cm).id
       /\ \A cue \in CuePool :
            LET i == CueIndexOf(cm, cue.id)
                r == CmRemoveCue(cm, cue.id)
            IN i >= 0 =>
                 IF i # cur
                 THEN GetCurrentCue(r).id = GetCurrentCue(cm).id
                 ELSE IF cur + 1 < n
                 THEN /\ r.current_index = cur
                      /\ GetCurrentCue(r) = cm.cue_list[cur + 2]
                 ELSE IF n > 1
                 THEN r.current_index = n - 2
                 ELSE r.current_index = 0

\* three different cues in the list, the current one not at the head and
\* the cue added first now at the tail
C13_Witness ==
  /\ Len(cm.cue_list) = 3
  /\ \A i, j \in 1..3 : i # j => cm.cue_list[i].id # cm.cue_list[j].id
  /\ cm.cue_list[3] = Cue0
  /\ cm.current_index = 2

\* C14: restore_breakpoint(audio_id, bp_id) for an existing breakpoint of a
\* catalogued audio returns true and leaves the kernel playing, not paused,
\* with current_audio_id = audio_id at the breakpoint's position; if a
\* different audio was playing, exactly one auto_saved breakpoint holding
\* that audio's current position is added to that audio's list.
C14_RestoreBreakpoint ==
  \A audio_id \in AudioIds :
    \A k \in 1..Len(bps[audio_id]) :
      LET bp == bps[audio_id][k]
          r == RestoreBreakpoint(Bundle, audio_id, bp.id)
          other == eng.current_bgm
      IN GetAudioFile(cm, audio_id) # NoTrack =>
           /\ r.ret
           /\ r.s.c.is_playing /\ ~r.s.c.is_paused
           /\ r.s.c.current_audio_id = audio_id
           /\ r.s.c.current_position = bp.position
           /\ r.s.e.current_bgm = audio_id
           /\ r.s.e.bgm_start_pos = bp.position
           /\ ( /\ ctl.is_playing /\ ~ctl.is_paused
                /\ other # None /\ other # audio_id )
              => r.s.b = [bps EXCEPT ![other] =
                   Append(@, [id |-> NewBreakpointId(bps), audio_id |-> other,
                              position |-> GetCurrentPosition(ctl),
                              label |-> "", auto_saved |-> TRUE])]

\* C15: restore_breakpoint returns false and leaves the playback state, the
\* mixer and the breakpoint store unchanged when the breakpoint id does not
\* exist under that audio or the audio id is not in the catalog; pause when
\* not playing or already paused, and resume when not paused, return false
\* and change nothing.
C15_RefusedCommandsChangeNothing ==
  /\ \A audio_id \in AudioIds, bp_id \in 1..(MaxBreakpoints + 1) :
       ( \/ \A k \in 1..Len(bps[audio_id]) : bps[audio_id][k].id # bp_id
         \/ \A i \in 1..Len(cm.audio_files) : cm.audio_files[i].id # audio_id )
       => RestoreBreakpoint(Bundle, audio_id, bp_id)
            = [s |-> Bundle, ret |-> FALSE]
  /\ (~ctl.is_playing \/ ctl.is_paused)
       => Pause(Bundle, Local) = [s |-> Bundle, ret |-> FALSE]
  /\ ~ctl.is_paused
       => Resume(Bundle, Local) = [s |-> Bundle, ret |-> FALSE]

\* the kernel is paused and holds a breakpoint of an audio that has left
\* the catalog: a restore of it and a second pause are both refused
C15_Witness ==
  /\ ctl.is_playing /\ ctl.is_paused
  /\ \E audio_id \in AudioIds :
       /\ Len(bps[audio_id]) > 0
       /\ GetAudioFile(cm, audio_id) = NoTrack

\* C16: seek(p) returns false and changes nothing when current_audio_id is
\* unset, when the current audio does not resolve, or when p < 0 or p is
\* beyond the current audio's duration; for 0 <= p <= duration with a
\* current audio it returns true and the current position becomes p.
C16_Seek ==
  \A p \in SeekPositions \cup {-1} :
    LET r == Seek(Bundle, p, Local)
        audio == IF ctl.current_audio_id = None THEN NoTrack
                 ELSE GetAudioFile(cm, ctl.current_audio_id)
    IN IF audio = NoTrack \/ p < 0 \/ p > audio.duration
       THEN r = [s |-> Bundle, ret |-> FALSE]
       ELSE /\ r.ret
            /\ r.s.c.current_position = p
            /\ r.s.e.bgm_start_pos = p

\* C17: a successful replay, from playing, paused or stopped, leaves the
\* kernel with is_playing true, is_paused false and the position at 0 in
\* MANUAL or at the current cue's start_time in AUTO, and adds no breakpoint.
C17_Replay ==
  LET r == Replay(Bundle, Local)
      start == IF ctl.mode = AUTO THEN GetCurrentCue(cm).start_time ELSE 0
  IN r.ret =>
       /\ r.s.c.is_playing
       /\ ~r.s.c.is_paused
       /\ r.s.c.current_position = start
       /\ GetCurrentPosition(r.s.c) = start
       /\ r.s.e.bgm_start_pos = start
       /\ r.s.b = bps

\* a replay of cue 1 (start_time 1) has just been carried out in a kernel
\* that was paused before it
C17_Witness ==
  /\ ctl.mode = AUTO
  /\ cm.current_index = 1
  /\ Len(events) > 0
  /\ events[1].type = "playback_started"
  /\ "replay" \in DOMAIN events[1].data
  /\ ctl.current_position = 1
  /\ ctl.is_playing /\ ~ctl.is_paused
  /\ BreakpointCount(bps) > 0

\* C18: switch_mode(m), from every playback state and in both directions,
\* leaves is_playing, is_paused and the current position unchanged and
\* sends the mixer nothing; no other command changes the mode.
C18_SwitchModeFrame ==
  /\ \A mode \in {AUTO, MANUAL} :
       LET r == SwitchMode(Bundle, mode) IN
       /\ r.ret
       /\ r.s.c.mode = mode
       /\ r.s.c.is_playing = ctl.is_playing
       /\ r.s.c.is_paused = ctl.is_paused
       /\ GetCurrentPosition(r.s.c) = GetCurrentPosition(ctl)
       /\ r.s.e = eng
  /\ \A source \in {Local, Remote} :
       /\ Play(Bundle, source).s.c.mode = ctl.mode
       /\ Pause(Bundle, source).s.c.mode = ctl.mode
       /\ Resume(Bundle, source).s.c.mode = ctl.mode
       /\ Stop(Bundle, source).s.c.mode = ctl.mode
       /\ NextCue(Bundle, source).s.c.mode = ctl.mode
       /\ Replay(Bundle, source).s.c.mode = ctl.mode
       /\ \A p \in SeekPositions : Seek(Bundle, p, source).s.c.mode = ctl.mode
  /\ \A i \in 1..Len(cm.audio_files) :
       /\ SetManualAudio(Bundle, cm.audio_files[i]).s.c.mode = ctl.mode
       /\ \A p \in StartPositions :
            PlayNewBgm(Bundle, cm.audio_files[i], p).s.c.mode = ctl.mode
  /\ \A p \in StartPositions :
       SetManualStartPosition(Bundle, p).s.c.mode = ctl.mode
  /\ \A d \in SilenceInputs :
       SetManualSilenceBefore(Bundle, d).s.c.mode = ctl.mode
  /\ \A audio_id \in AudioIds, bp_id \in 1..MaxBreakpoints :
       RestoreBreakpoint(Bundle, audio_id, bp_id).s.c.mode = ctl.mode
  /\ SkipSilence(Bundle).s.c.mode = ctl.mode
  /\ ProcessPendingOps(Bundle).s.c.mode = ctl.mode
  /\ OnBgmEnd(Bundle).c.mode = ctl.mode
  /\ AutoAdvance(Bundle).c.mode = ctl.mode
  /\ \A enabled \in BOOLEAN :
       SetLocalPriority(Bundle, enabled).c.mode = ctl.mode

\* the kernel has just been switched back to AUTO while paused
C18_Witness ==
  /\ ctl.mode = AUTO
  /\ ctl.is_playing /\ ctl.is_paused
  /\ Len(events) > 0
  /\ events[1].type = "mode_changed"
  /\ events[1].data.was_paused

\* C19: a pause issued while audio A is playing at position P appends exactly
\* one breakpoint to A's list, with auto_saved true and position P, leaves
\* every other audio's list unchanged, and leaves the kernel paused
\* (is_playing and is_paused) with the position frozen at P.
C19_PauseSavesBreakpoint ==
  (ctl.is_playing /\ ~ctl.is_paused /\ eng.current_bgm # None) =>
    LET r == Pause(Bundle, Local)
        A == eng.current_bgm
        P == GetCurrentPosition(ctl)
    IN /\ r.ret
       /\ Len(r.s.b[A]) = Len(bps[A]) + 1
       /\ SubSeq(r.s.b[A], 1, Len(bps[A])) = bps[A]
       /\ r.s.b[A][Len(r.s.b[A])].auto_saved
       /\ r.s.b[A][Len(r.s.b[A])].position = P
       /\ \A other \in AudioIds \ {A} : r.s.b[other] = bps[other]
       /\ r.s.c.is_playing /\ r.s.c.is_paused
       /\ GetCurrentPosition(r.s.c) = P

\* C20: every state-changing command that succeeds (play, pause, resume,
\* stop, seek, next_cue, replay, switch_mode, play_new_bgm,
\* restore_breakpoint, skip_silence, set_bgm_volume, set_sfx_volume) emits
\* exactly one typed event followed by exactly one state_changed event.
C20_OneEventPerCommand ==
  LET changed(t) == [t EXCEPT !.ev = <<>>] # Bundle
      one(t) == /\ Len(t.ev) = 2
                /\ t.ev[1].type # "state_changed"
                /\ t.ev[2].type = "state_changed"
      ok(r) == (r.ret /\ changed(r.s)) => one(r.s)
  IN /\ ok(Play(Bundle, Local))
     /\ ok(Pause(Bundle, Local))
     /\ ok(Resume(Bundle, Local))
     /\ ok(Stop(Bundle, Local))
     /\ \A p \in SeekPositions : ok(Seek(Bundle, p, Local))
     /\ ok(NextCue(Bundle, Local))
     /\ ok(Replay(Bundle, Local))
     /\ \A mode \in {AUTO, MANUAL} : ok(SwitchMode(Bundle, mode))
     /\ \A i \in 1..Len(cm.audio_files), p \in StartPositions :
          ok(PlayNewBgm(Bundle, cm.audio_files[i], p))
     /\ \A audio_id \in AudioIds, bp_id \in 1..MaxBreakpoints :
          ok(RestoreBreakpoint(Bundle, audio_id, bp_id))
     /\ ok(SkipSilence(Bundle))
     /\ \A volume \in VolumeInputs :
          /\ one(SetBgmVolume(Bundle, volume))
          /\ one(SetSfxVolume(Bundle, volume))

\* C21: while local_priority is enabled, no command received by the remote
\* port (switch_mode, set_bgm_volume, set_sfx_volume, play_sfx, stop_sfx and
\* toggle_sfx included) changes the mode, the playback flags, the volumes or
\* the sounding SFX: every such command is deferred, not executed.
C21_RemotePortDeferred ==
  ctl.local_priority =>
    LET same(t) == /\ t.c.mode = ctl.mode
                   /\ t.c.is_playing = ctl.is_playing
                   /\ t.c.is_paused = ctl.is_paused
                   /\ t.c.in_silence = ctl.in_silence
                   /\ t.c.bgm_volume = ctl.bgm_volume
                   /\ t.c.sfx_volume = ctl.sfx_volume
                   /\ t.e = eng
    IN /\ same(Play(Bundle, Remote).s)
       /\ same(Pause(Bundle, Remote).s)
       /\ same(Resume(Bundle, Remote).s)
       /\ same(Stop(Bundle, Remote).s)
       /\ same(NextCue(Bundle, Remote).s)
       /\ same(Replay(Bundle, Remote).s)
       /\ \A position \in SeekPositions :
            same(Seek(Bundle, position, Remote).s)
       /\ \A mode \in {AUTO, MANUAL} : same(HandleSwitchMode(Bundle, mode).s)
       /\ \A volume \in VolumeInputs :
            /\ same(HandleBgmVolume(Bundle, volume))
            /\ same(HandleSfxVolume(Bundle, volume))
       /\ \A sfx_id \in SfxIds :
            /\ same(HandlePlaySfx(Bundle, sfx_id).s)
            /\ same(HandleStopSfx(Bundle, sfx_id).s)
            /\ same(HandleToggleSfx(Bundle, sfx_id).s)

\* C22: the PlaybackState snapshot attached to a broadcast message equals
\* the kernel state as it was when the triggering event was published, even
\* when another command changes the kernel state before the message is sent.
C22_SnapshotOfPublication ==
  (Len(tasks) > 0 /\ tasks[1].kind = "broadcast_state") =>
    BroadcastMessage(Bundle, tasks[1]).state = tasks[1].published

\* C23: for every published event other than state_changed, all listeners
\* registered for its type are called, in registration order, before any
\* state_changed listener is called for it; each registered state_changed
\* listener is called exactly once for it, with the event wrapped; a
\* listener that raises stops none of the later calls.
C23_ListenerOrder ==
  \A k \in 1..Len(events) :
    events[k].type # "state_changed" =>
      LET type == events[k].type
          calls == NotifyCalls(ctl, type, events[k].data)
          typed == IF type \in DOMAIN ctl.listeners
                   THEN ctl.listeners[type] ELSE <<>>
          state == ctl.listeners["state_changed"]
          n == Len(typed)
      IN /\ Len(calls) = n + Len(state)
         /\ \A i \in 1..n :
              /\ calls[i].callback = typed[i]
              /\ calls[i].event_type = type
              /\ calls[i].data = events[k].data
         /\ \A j \in 1..Len(state) :
              /\ calls[n + j].callback = state[j]
              /\ calls[n + j].event_type = "state_changed"
              /\ calls[n + j].data = [event |-> type, data |-> events[k].data]

\* playback_started has just been published to two listeners, the first of
\* which raises, and to a state_changed listener that raises too
C23_Witness ==
  /\ Len(events) > 0
  /\ events[1].type = "playback_started"
  /\ ctl.listeners["playback_started"] = <<"L1", "L2">>
  /\ ctl.listeners["state_changed"] = <<"L1", "L2">>

\* C24: for any two distinct audio ids A and B, save_breakpoint,
\* delete_breakpoint and clear_audio_breakpoints applied to A leave B's
\* breakpoint list unchanged, and clear_audio_breakpoints(A) leaves A's list
\* empty.
C24_PerAudioIndependent ==
  \A A \in AudioIds, B \in AudioIds :
    A # B =>
      /\ \A position \in StartPositions, auto_saved \in BOOLEAN :
           BmSaveBreakpoint(bps, A, position, "", auto_saved)[B] = bps[B]
      /\ \A bp_id \in BpIdInputs :
           BmDeleteBreakpoint(bps, A, bp_id).b[B] = bps[B]
      /\ BmClearAudioBreakpoints(bps, A)[B] = bps[B]
      /\ BmGetBreakpoints(BmClearAudioBreakpoints(bps, A), A) = <<>>

\* both audios have breakpoints, B two of them
C24_Witness ==
  /\ Len(bps["A"]) = 1
  /\ Len(bps["B"]) = 2
  /\ bps["B"][1].id > bps["B"][2].id

\* C25: save_breakpoint(audio_id, position, label, auto_saved) appends one
\* breakpoint with the given fields at the end of that audio's list, under
\* an id that no breakpoint of the store carries, and get_breakpoints(
\* audio_id) contains that id afterwards; saving the same position twice
\* yields two entries.
C25_SaveAppendsFreshId ==
  \A audio_id \in AudioIds, position \in StartPositions,
     auto_saved \in BOOLEAN :
    LET b1 == BmSaveBreakpoint(bps, audio_id, position, "", auto_saved)
        b2 == BmSaveBreakpoint(b1, audio_id, position, "", auto_saved)
        n == Len(bps[audio_id])
        l1 == BmGetBreakpoints(b1, audio_id)
        l2 == BmGetBreakpoints(b2, audio_id)
    IN /\ Len(l1) = n + 1
       /\ SubSeq(l1, 1, n) = bps[audio_id]
       /\ l1[n + 1].audio_id = audio_id
       /\ l1[n + 1].position = position
       /\ l1[n + 1].label = ""
       /\ l1[n + 1].auto_saved = auto_saved
       /\ l1[n + 1].id \notin BreakpointIds(bps)
       /\ Len(l2) = n + 2
       /\ SubSeq(l2, 1, n + 1) = l1
       /\ l2[n + 2].position = position
       /\ l2[n + 2].id \notin BreakpointIds(b1)

\* the store holds ids 2 and 3 only: id 1 was deleted before the last save
C25_Witness ==
  /\ BreakpointIds(bps) = {2, 3}
  /\ Len(bps["A"]) = 2
  /\ bps["A"][1].position = bps["A"][2].position

\* C26: clear_selected(ids) removes from every audio's list exactly the
\* breakpoints whose id is in ids, keeps the others in their order, and
\* returns the number of breakpoints removed; ids that are absent or listed
\* twice do not inflate the count.
C26_ClearSelected ==
  \A bp_ids \in SelectedLists :
    LET r == BmClearSelected(bps, bp_ids)
        listed == {bp_ids[i] : i \in 1..Len(bp_ids)}
    IN /\ \A audio_id \in AudioIds :
            r.b[audio_id] =
              SelectSeq(bps[audio_id], LAMBDA bp : bp.id \notin listed)
       /\ r.ret = BreakpointCount(bps) - BreakpointCount(r.b)
       /\ r.ret = Cardinality(BreakpointIds(bps) \cap listed)

\* three breakpoints over both audios, so that a list naming one id twice or
\* an absent id removes fewer breakpoints than it names
C26_Witness ==
  /\ Len(bps["A"]) = 2
  /\ Len(bps["B"]) = 1
  /\ BreakpointIds(bps) = {1, 2, 3}

\* C27: set_bgm_volume(v) sets the BGM volume to v clamped into [0, 3]
\* (exactly v for v in [0, 1]) and leaves the SFX volume, is_playing and
\* is_paused unchanged; set_sfx_volume(v) likewise leaves the BGM volume,
\* is_playing and is_paused unchanged.
C27_VolumeFrame ==
  \A v \in VolumeInputs \cup {-1, 1, 2} :
    LET clamped == IF v < 0 THEN 0 ELSE IF v > 3 THEN 3 ELSE v
        b == SetBgmVolume(Bundle, v)
        x == SetSfxVolume(Bundle, v)
    IN /\ b.c.bgm_volume = clamped
       /\ b.e.bgm_volume = clamped
       /\ b.c.sfx_volume = ctl.sfx_volume
       /\ b.e.sfx_volume = eng.sfx_volume
       /\ b.c.is_playing = ctl.is_playing
       /\ b.c.is_paused = ctl.is_paused
       /\ x.c.sfx_volume = clamped
       /\ x.e.sfx_volume = clamped
       /\ x.c.bgm_volume = ctl.bgm_volume
       /\ x.e.bgm_volume = eng.bgm_volume
       /\ x.c.is_playing = ctl.is_playing
       /\ x.c.is_paused = ctl.is_paused

\* the BGM volume has just been set to 300% while paused, the SFX volume
\* being at 0
C27_Witness ==
  /\ ctl.is_playing /\ ctl.is_paused
  /\ ctl.bgm_volume = 3
  /\ ctl.sfx_volume = 0
  /\ Len(events) > 0
  /\ events[1].type = "volume_changed"
  /\ events[1].data.type = "bgm"

\* C28: toggle_sfx(id, track) stops the SFX when it is playing and starts it
\* otherwise, its return value equals is_sfx_playing(id) right after the
\* call, and sfx_started is emitted only when the SFX actually started, the
\* case of a full SFX pool included.
C28_ToggleSfx ==
  \A sfx_id \in SfxIds :
    LET r == ToggleSfx(Bundle, sfx_id)
        after == EngineIsSfxPlaying(r.s.e, sfx_id)
    IN /\ after = ~EngineIsSfxPlaying(eng, sfx_id)
       /\ r.ret = after
       /\ (\E k \in 1..Len(r.s.ev) : r.s.ev[k].type = "sfx_started") => after

\* C29: for a long-press handler with threshold T, the confirm callback runs
\* only on a release that finds the handler PRESSING with elapsed time >= T,
\* and at most once per press; a release with elapsed time < T, after a
\* cancel (or a leave while pressing) or without a press gives CANCELLED and
\* does not run the confirm callback.
C29_LongPressConfirm ==
  \A btn \in Buttons :
    LET h == lp[btn]
        r == LpOnRelease(h)
        pressed == h.state = "pressing"
        elapsed == LpGetElapsedMs(h)
        again == LpOnRelease(r.h)
        c == LpOnRelease(LpCancel(h).h)
        l == LpOnRelease(LpOnLeave(h).h)
    IN /\ r.confirmed <=> (pressed /\ elapsed >= h.duration_ms)
       /\ r.confirmed => (r.result.success /\ r.result.state = "completed")
       /\ ~r.confirmed => (~r.result.success /\ r.result.state = "cancelled")
       /\ ~again.confirmed /\ again.result.state = "cancelled"
       /\ ~c.confirmed /\ c.result.state = "cancelled"
       /\ pressed => (~l.confirmed /\ l.result.state = "cancelled")
       /\ ~LpCancel(h).confirmed
       /\ ~LpOnLeave(h).confirmed
       /\ h.confirms <= 1
       /\ r.h.confirms <= 1

\* the play button, held for the threshold, has been released and confirmed
\* while the pause button was released too early
C29_Witness ==
  /\ lp["play"].state = "completed"
  /\ lp["play"].confirms = 1
  /\ lp["play"].last_result.success
  /\ lp["play"].last_result.duration_ms = 1
  /\ lp["play"].duration_ms = 1
  /\ lp["pause"].state = "cancelled"
  /\ lp["pause"].duration_ms = 1
  /\ lp["pause"].last_result.duration_ms = 0
  /\ lp["pause"].confirms = 0

\* C30: every write to the playback state (is_playing, is_paused,
\* in_silence, current_audio_id, position tracking, manual audio) is made by
\* the holder of operation_lock inside its critical section, so the BGM-end
\* callback, update_silence, _auto_advance and set_manual_audio write nothing
\* while a command on another thread is inside its `with` block.
C30_WritesUnderLock ==
  [][LET PlaybackState(c) ==
           <<c.is_playing, c.is_paused, c.in_silence, c.current_audio_id,
             c.current_position, c.playback_start_time,
             c.playback_start_position, c.paused_audio_id,
             c.paused_position, c.manual_audio,
             c.manual_start_pos, c.manual_silence_before>>
     IN PlaybackState(ctl') # PlaybackState(ctl)
          => (operation_lock # NoThread /\ operation_lock' = NoThread)]_vars

\* C31: when stop, skip_silence or next_cue has ended a post-cue silence
\* wait, the silence task that wakes up afterwards makes no transition: the
\* cue index stays, no cue_changed or playback_started is emitted and no
\* playback starts.
C31_CancelledTaskInert ==
  [][\A i \in 1..Len(tasks) :
       (/\ tasks[i].kind = "handle_auto_next"
        /\ tasks[i].pc = "sleep"
        /\ ~ctl.in_silence
        /\ tasks' = RemoveAt(tasks, i))
       => /\ cm'.current_index = cm.current_index
          /\ ctl'.is_playing = ctl.is_playing
          /\ eng'.current_bgm = eng.current_bgm
          /\ \A k \in 1..Len(events') :
               events'[k].type \notin {"cue_changed", "playback_started"}]_vars

\* C32: a silence wait entered by play (or by auto_advance) for a
\* silence_before > 0 ends by itself: with no further command the kernel
\* eventually leaves the silence and is PLAYING.  The wait is taken early
\* enough for its expiry to lie within the modelled time.
C32_PreSilenceEnds ==
  (/\ ctl.in_silence
   /\ tasks = <<>>
   /\ ctl.silence_start_time + ctl.silence_duration <= MaxTime)
    ~> (~ctl.in_silence /\ ctl.is_playing /\ ~ctl.is_paused)

\* C33: under any interleaving of save_breakpoint with save_breakpoint,
\* delete_breakpoint or clear_selected on other ids, every breakpoint whose
\* id a completed save returned is in the store: no save is lost.
C33_NoSaveLost == returned \subseteq BreakpointIds(bps)

\* C34: switch_mode issued during a silence wait terminates the wait: when
\* it returns in_silence is false (and so the pending silence task can cause
\* no later silence_ended, cue advance or playback start).
C34_SwitchModeEndsSilence ==
  \A mode \in {AUTO, MANUAL} :
    (ctl.in_silence /\ mode # ctl.mode)
      => LET r == SwitchMode(Bundle, mode)
         IN r.ret /\ ~r.s.c.in_silence

\* C35: on a natural BGM end the kernel emits playback_completed for the
\* finished audio and clears is_playing and is_paused; in MANUAL mode, and in
\* AUTO mode on the last cue, the cue index stays, no cue_changed or
\* playback_started is emitted and the kernel stays STOPPED.
C35_NaturalEnd ==
  CheckBgmEndGuard(eng) =>
    LET t == OnBgmEnd(Bundle)
        u == IF ctl.mode = AUTO THEN AutoAdvance(t) ELSE t
        last == cm.current_index + 1 >= Len(cm.cue_list)
    IN /\ Len(t.ev) >= 1
       /\ t.ev[1].type = "playback_completed"
       /\ t.ev[1].data.audio_id = eng.current_bgm
       /\ ~t.c.is_playing /\ ~t.c.is_paused
       /\ (ctl.mode = MANUAL \/ last)
            => /\ u.m.current_index = cm.current_index
               /\ ~u.c.is_playing
               /\ \A k \in 1..Len(u.ev) :
                    u.ev[k].type \notin {"cue_changed", "playback_started"}

\* C36: a successful pause emits, besides playback_paused, a
\* breakpoint_saved event for every breakpoint it adds to the store.
C36_PauseAnnouncesBreakpoint ==
  LET r == Pause(Bundle, Local) IN
  (r.ret /\ BreakpointCount(r.s.b) > BreakpointCount(bps))
    => /\ \E k \in 1..Len(r.s.ev) : r.s.ev[k].type = "playback_paused"
       /\ \E k \in 1..Len(r.s.ev) : r.s.ev[k].type = "breakpoint_saved"

\* C37: whenever the kernel reports is_playing and not is_paused, the mixer
\* holds a BGM track and that track's id equals current_audio_id.
C37_PlayingMatchesMixer ==
  (ctl.is_playing /\ ~ctl.is_paused)
    => (eng.current_bgm # None /\ eng.current_bgm = ctl.current_audio_id)

\* C38: after pause at position P, a successful seek(p) with p # P leaves
\* the kernel PAUSED at position p, and a following resume restarts playback
\* at p, not at P.
C38_SeekWhilePaused ==
  \A p \in SeekPositions :
    LET P == GetCurrentPosition(ctl)
        r == Seek(Bundle, p, Local)
        q == Resume(r.s, Local)
    IN (/\ ctl.is_playing /\ ctl.is_paused
        /\ ctl.paused_position = ctl.current_position
        /\ r.ret /\ p # P)
       => /\ r.s.c.is_playing /\ r.s.c.is_paused
          /\ GetCurrentPosition(r.s.c) = p
          /\ q.ret
          /\ q.s.c.is_playing /\ ~q.s.c.is_paused
          /\ q.s.c.current_position = p
          /\ q.s.e.bgm_start_pos = p

\* C39: in the mixer two different SFX ids never refer to the same slot, so
\* stop_sfx(X) never silences the sound of another id Y and
\* is_sfx_playing(X) is not answered by Y's sound.
C39_SfxSlotsDistinct ==
  \A X \in SfxIds, Y \in SfxIds :
    (X # Y /\ eng.playing_sfx[X] # 0)
      => /\ eng.playing_sfx[X] # eng.playing_sfx[Y]
         /\ EngineIsSfxPlaying(EngineStopSfx(eng, X).e, Y)
              = EngineIsSfxPlaying(eng, Y)

\* C40: AudioEngine.shutdown() always terminates: every call of it returns,
\* with the engine lock released and the engine uninitialized.
C40_ShutdownTerminates ==
  \A t \in EngineThreads :
    (engine_calls[t].op = "shutdown")
      ~> (engine_calls[t].op = "none" /\ eng.lock = NoThread
          /\ ~eng.initialized)

====
